---- MODULE Spec2Model ----
(***************************************************************************)
(* Model of the hospital-booking calendar: the availability engine and the *)
(* booking orchestrator of internal/calendar, the role gate of             *)
(* internal/auth and the tables of the database schema.                    *)
(*                                                                         *)
(* Time is counted in minutes from 2021-08-10 00:00 UTC.  A time.Time is   *)
(* the instant it denotes; its zone matters where the code builds a new    *)
(* time from calendar fields (the offset is an argument of TimeDate) and   *)
(* where a time is written to a TIMESTAMP column, which keeps the wall     *)
(* clock of the time in its zone and reads it back as UTC (Timestamp).     *)
(*                                                                         *)
(* A request is served in steps, one per database round trip that reads or *)
(* writes the appointment and blocker tables, so that requests interleave  *)
(* exactly where the code can be pre-empted by another request's commit.   *)
(* Data-access failures (the err != nil branches) are separate steps that   *)
(* only the specification with failures takes.                             *)
(*                                                                         *)
(* The auth service is modelled with time in minutes; a token string is    *)
(* the record of its claims and of the key that signed it.                 *)
(***************************************************************************)
EXTENDS Integers, Sequences, FiniteSets, Bags, TLC

\* ------------------------------------------------------------------ bounds
MaxAppointments == 2
MaxBlockers == 1
MaxInFlight == 2
MaxIssued == 2

Slots == 1..MaxInFlight

\* --------------------------------------------------------------- constants
startWorkHour == 9
endWorkHour == 17

MinutesPerHour == 60
MinutesPerDay == 1440

\* time.Time{} is 0001-01-01 00:00 UTC, 738011 days before 2021-08-10.
ZeroTime == 0 - (738011 * 1440)

StatusOK == 200
StatusCreated == 201
StatusBadRequest == 400
StatusForbidden == 403
StatusNotFound == 404
StatusUnauthorized == 401
StatusInternalServerError == 500

PatientRole == "PATIENT"
DoctorRole == "DOCTOR"

ErrDoctorNotFound == "doctor not found"
ErrOnlyDoctorCanCreateBlocker == "only a doctor can create a blocker"
ErrOnlyPatientCanCreateAppointment == "only a patient can create an appointment"
ErrSlotNotAvailable == "chosen slot is not available"
ErrOnlyDoctorCanCheckItsAppointments == "only a doctor can check its appointments"

\* time.Parse without a zone in the layout yields UTC: the zone offset, in
\* hours, of every date parseDateParameters returns.
ParsedDateOffset == 0

\* The deployed image carries no zone database and sets no TZ: time.Local is UTC.
UTCOffset == 0

NoPatient == 0
NoDoctor == 0
NoUUID == "none"

\* No user: the zero of the user's id, and a context that carries no User.
NoUser == 0

VARIABLES users, patients, doctors, appointments, blockers, localOffset, slots,
          now, issued, auth, refreshing, wire

\* The clock, the token pairs handed out so far (the server keeps none of
\* them), the last request served by the auth handlers and the refresh
\* request that waits for the repository.
authVars == <<now, issued, auth, refreshing>>

\* The tables, the zone, the calendar requests in flight and what the last
\* calendar handler that could not parse its request did.
calendarVars == <<users, patients, doctors, appointments, blockers, localOffset, slots, wire>>

vars == <<users, patients, doctors, appointments, blockers, localOffset, slots,
          now, issued, auth, refreshing, wire>>

\* ------------------------------------------------------------------ tables
\* tb_user as the schema seeds it, id -> role: patient@hospital.com and
\* doctor@hospital.com.  No route adds or removes a user.
SeedUsers == (1 :> PatientRole) @@ (2 :> DoctorRole)

\* tb_patient as seeded: the profile of user 1.
SeedPatients == { [id |-> 1, user_id |-> 1] }

\* tb_doctor as seeded: the profile of user 2; "D1" stands for its uuid.
SeedDoctors == { [id |-> 1, user_id |-> 2, uuid |-> "D1"] }

\* ------------------------------------------------------------- time.Time
\* t.Truncate(d): round t down to a multiple of d since the zero time.
Truncate(t, d) == t - ((t - ZeroTime) % d)

\* time.Date(date.Year(), date.Month(), date.Day(), hour, 0, 0, 0, loc) for a
\* date held in UTC and a zone loc that is offset hours east of UTC.
TimeDate(date, hour, offset) ==
    Truncate(date, MinutesPerDay) + (hour * MinutesPerHour) - (offset * MinutesPerHour)

IsZero(t) == t = ZeroTime

\* A time.Time bound to a TIMESTAMP column: lib/pq writes the wall clock of
\* t in the zone t carries, zone minutes east of UTC, followed by the
\* offset; the column has no zone and drops the offset, and the row is read
\* back as that wall clock in UTC.
Timestamp(t, zone) == t + zone

\* date_trunc('day', ts) on a TIMESTAMP column.
date_trunc_day(t) == Truncate(t, MinutesPerDay)

\* ------------------------------------------------------------ repository
\* FindDoctorByUUID without the WHERE clause: the first doctor row.
FindDoctorByUUID_AnyDoctor(uuid) ==
    IF doctors = {}
    THEN NoDoctor
    ELSE (CHOOSE d \in doctors : \A e \in doctors : d.id <= e.id).id

FindDoctorByUUID(uuid) ==
    IF \E d \in doctors : d.uuid = uuid
    THEN (CHOOSE d \in doctors : d.uuid = uuid).id
    ELSE NoDoctor

FindDoctorByUserID(userID) ==
    IF \E d \in doctors : d.user_id = userID
    THEN (CHOOSE d \in doctors : d.user_id = userID).id
    ELSE NoDoctor

\* FindPatientByUserID without the WHERE clause: the first patient row.
FindPatientByUserID_AnyPatient(userID) ==
    IF patients = {}
    THEN NoPatient
    ELSE (CHOOSE p \in patients : \A q \in patients : p.id <= q.id).id

FindPatientByUserID(userID) ==
    IF \E p \in patients : p.user_id = userID
    THEN (CHOOSE p \in patients : p.user_id = userID).id
    ELSE NoPatient

FindPatientByID(ID) ==
    IF \E p \in patients : p.id = ID THEN ID ELSE NoPatient

\* The rows listAppointmentsQuery selects, as a bag.
ListAppointmentsRows(doctorID, date) ==
    LET day == Truncate(date, MinutesPerDay)
        hit == { a \in BagToSet(appointments) :
                    a.doctor_id = doctorID /\ day = date_trunc_day(a.date) }
    IN  [a \in hit |-> CopiesIn(a, appointments)]

\* listBlockersQuery that selects the blockers that start on the day.
ListBlockers_StartDayOnly(doctorID, date) ==
    LET day == Truncate(date, MinutesPerDay)
    IN  { b \in BagToSet(blockers) :
            /\ b.doctor_id = doctorID
            /\ day = date_trunc_day(b.start_date) }

\* The rows listBlockersQuery selects.
ListBlockers(doctorID, date) ==
    LET day == Truncate(date, MinutesPerDay)
    IN  { b \in BagToSet(blockers) :
            /\ b.doctor_id = doctorID
            /\ day >= date_trunc_day(b.start_date)
            /\ day <= date_trunc_day(b.end_date) }

\* The bag of the elements of a sequence.
SeqToBag(s) ==
    LET rng == { s[i] : i \in DOMAIN s }
    IN  [x \in rng |-> Cardinality({ i \in DOMAIN s : s[i] = x })]

\* ListAppointments returns the selected rows in an order the query leaves open.
ListAppointmentsOrders(doctorID, date) ==
    LET rows == ListAppointmentsRows(doctorID, date)
        n == BagCardinality(rows)
    IN  { s \in [1..n -> BagToSet(rows)] : SeqToBag(s) = rows }


\* --------------------------------------------------------------- service
\* An Entry; patient is the id of the Patient, NoPatient for nil.
Entry(hour, available, patient) ==
    [hour |-> hour, available |-> available, patient |-> patient]

\* hourIsBlocked with the end of the period excluded.
hourIsBlocked_ExclusiveEnd(blks, date, hour) ==
    LET reference == TimeDate(date, hour, ParsedDateOffset)
    IN  \E v \in blks :
            /\ (reference > v.start_date \/ reference = v.start_date)
            /\ reference < v.end_date

\* hourIsBlocked with the start of the period excluded.
hourIsBlocked_ExclusiveStart(blks, date, hour) ==
    LET reference == TimeDate(date, hour, ParsedDateOffset)
    IN  \E v \in blks :
            /\ reference > v.start_date
            /\ (reference < v.end_date \/ reference = v.end_date)

\* hourIsBlocked: the reference is built in date.Location().
hourIsBlocked(blks, date, hour) ==
    LET reference == TimeDate(date, hour, ParsedDateOffset)
    IN  \E v \in blks :
            /\ (reference > v.start_date \/ reference = v.start_date)
            /\ (reference < v.end_date \/ reference = v.end_date)

\* hasAppointment with a reference that drops the hour.
hasAppointment_DropsHour(appts, date, hour) ==
    LET reference == TimeDate(date, 0, localOffset)
    IN  \E i \in DOMAIN appts : reference = appts[i].date

\* hasAppointment: the reference is built in time.Local.
hasAppointment(appts, date, hour) ==
    LET reference == TimeDate(date, hour, localOffset)
    IN  \E i \in DOMAIN appts : reference = appts[i].date

\* getAppointmentPatient with a reference that drops the hour.
getAppointmentPatient_DropsHour(appts, date, hour) ==
    LET reference == TimeDate(date, 0, localOffset)
        hits == { i \in DOMAIN appts : reference = appts[i].date }
    IN  IF hits = {}
        THEN NoPatient
        ELSE LET first == CHOOSE i \in hits : \A j \in hits : i <= j
             IN  FindPatientByID(appts[first].patient_id)

\* getAppointmentPatient: the patient of the first appointment at the reference.
getAppointmentPatient(appts, date, hour) ==
    LET reference == TimeDate(date, hour, localOffset)
        hits == { i \in DOMAIN appts : reference = appts[i].date }
    IN  IF hits = {}
        THEN NoPatient
        ELSE LET first == CHOOSE i \in hits : \A j \in hits : i <= j
             IN  FindPatientByID(appts[first].patient_id)

\* The loop of GetDoctorCalendar without the continue on a booked hour.
RECURSIVE DoctorCalendarLoop_KeepsBooked(_, _, _, _)
DoctorCalendarLoop_KeepsBooked(appts, blks, date, hour) ==
    IF hour > endWorkHour
    THEN << >>
    ELSE LET rest == DoctorCalendarLoop_KeepsBooked(appts, blks, date, hour + 1)
         IN  IF hourIsBlocked(blks, date, hour)
             THEN rest
             ELSE << Entry(hour, ~hasAppointment(appts, date, hour), NoPatient) >> \o rest

\* The loop of GetDoctorCalendar from hour on: blocked and booked hours are skipped.
RECURSIVE DoctorCalendarLoop(_, _, _, _)
DoctorCalendarLoop(appts, blks, date, hour) ==
    IF hour > endWorkHour
    THEN << >>
    ELSE LET rest == DoctorCalendarLoop(appts, blks, date, hour + 1)
         IN  IF hourIsBlocked(blks, date, hour)
             THEN rest
             ELSE IF hasAppointment(appts, date, hour)
                  THEN rest
                  ELSE << Entry(hour, TRUE, NoPatient) >> \o rest

\* The loop of GetAppointments with the bound hour < endWorkHour.
RECURSIVE AppointmentsLoop_StopsEarly(_, _, _, _)
AppointmentsLoop_StopsEarly(appts, blks, date, hour) ==
    IF hour >= endWorkHour
    THEN << >>
    ELSE LET blocked == hourIsBlocked(blks, date, hour)
             available == IF blocked THEN FALSE ELSE ~hasAppointment(appts, date, hour)
             patient == IF ~blocked /\ ~available
                        THEN getAppointmentPatient(appts, date, hour)
                        ELSE NoPatient
         IN  << Entry(hour, available, patient) >>
                 \o AppointmentsLoop_StopsEarly(appts, blks, date, hour + 1)

\* The loop of GetAppointments that looks the patient up for a blocked hour too.
RECURSIVE AppointmentsLoop_PatientWhenBlocked(_, _, _, _)
AppointmentsLoop_PatientWhenBlocked(appts, blks, date, hour) ==
    IF hour > endWorkHour
    THEN << >>
    ELSE LET blocked == hourIsBlocked(blks, date, hour)
             available == IF blocked THEN FALSE ELSE ~hasAppointment(appts, date, hour)
             patient == IF ~available
                        THEN getAppointmentPatient(appts, date, hour)
                        ELSE NoPatient
         IN  << Entry(hour, available, patient) >>
                 \o AppointmentsLoop_PatientWhenBlocked(appts, blks, date, hour + 1)

\* The loop of GetAppointments from hour on: one entry for every hour.
RECURSIVE AppointmentsLoop(_, _, _, _)
AppointmentsLoop(appts, blks, date, hour) ==
    IF hour > endWorkHour
    THEN << >>
    ELSE LET blocked == hourIsBlocked(blks, date, hour)
             available == IF blocked THEN FALSE ELSE ~hasAppointment(appts, date, hour)
             patient == IF ~blocked /\ ~available
                        THEN getAppointmentPatient(appts, date, hour)
                        ELSE NoPatient
         IN  << Entry(hour, available, patient) >>
                 \o AppointmentsLoop(appts, blks, date, hour + 1)

\* slotIsAvailable that answers true for an hour the entries do not list.
slotIsAvailable_DefaultTrue(entries, hour) ==
    LET hits == { i \in DOMAIN entries : entries[i].hour = hour }
    IN  IF hits = {}
        THEN TRUE
        ELSE entries[CHOOSE i \in hits : \A j \in hits : i <= j].available

\* slotIsAvailable: the availability of the first entry of that hour.
slotIsAvailable(entries, hour) ==
    LET hits == { i \in DOMAIN entries : entries[i].hour = hour }
    IN  IF hits = {}
        THEN FALSE
        ELSE entries[CHOOSE i \in hits : \A j \in hits : i <= j].available

\* -------------------------------------------------------------- responses
NoResp == [status |-> 0, kind |-> "none", field |-> "", detail |-> "", entries |-> << >>]

Ok(status, entries) ==
    [status |-> status, kind |-> "ok", field |-> "", detail |-> "", entries |-> entries]

\* apierrors.NewAPIError(WithDetail(detail), WithHTTPStatusCode(status))
APIError(status, detail) ==
    [status |-> status, kind |-> "APIError", field |-> "", detail |-> detail, entries |-> << >>]

\* apierrors.NewValidationError(field, detail), written as 400 by the handler
ValidationError(field, detail) ==
    [status |-> StatusBadRequest, kind |-> "ValidationError", field |-> field,
     detail |-> detail, entries |-> << >>]

\* The bare status AllowedRole writes, with no body.
Denied(status) ==
    [status |-> status, kind |-> "middleware", field |-> "", detail |-> "", entries |-> << >>]

\* auth.NewUnauthorizedError(), as GetAuthenticatedUser returns it.
CalendarUnauthorizedError ==
    [status |-> 0, kind |-> "UnauthorizedError", field |-> "", detail |-> "not authorized",
     entries |-> << >>]

\* Any other error: a driver error, fmt.Errorf("... not inserted"), and the
\* same wrapped by fmt.Errorf("an unexpected error occurred: %w", err).
OtherError(detail) ==
    [status |-> 0, kind |-> "error", field |-> "", detail |-> detail, entries |-> << >>]

ErrDriver == "driver error"
ErrAppointmentNotInserted == "appointment not inserted"
ErrBlockerNotInserted == "blocker not inserted"

\* writeResponseError that answers 400 for every APIError.
writeResponseError_APIErrorAsBadRequest(err) ==
    IF err.kind = "UnauthorizedError"
    THEN [err EXCEPT !.status = StatusUnauthorized, !.field = "", !.detail = ""]
    ELSE IF err.kind = "ValidationError"
    THEN [err EXCEPT !.status = StatusBadRequest]
    ELSE IF err.kind = "APIError"
    THEN [err EXCEPT !.status = StatusBadRequest]
    ELSE [err EXCEPT !.status = StatusInternalServerError, !.field = "", !.detail = ""]

\* writeResponseError: the status by the type of the error; the error is the
\* body for a ValidationError and an APIError, and there is no body otherwise.
writeResponseError(err) ==
    IF err.kind = "UnauthorizedError"
    THEN [err EXCEPT !.status = StatusUnauthorized, !.field = "", !.detail = ""]
    ELSE IF err.kind = "ValidationError"
    THEN [err EXCEPT !.status = StatusBadRequest]
    ELSE IF err.kind = "APIError"
    THEN [err EXCEPT !.status = err.status]
    ELSE [err EXCEPT !.status = StatusInternalServerError, !.field = "", !.detail = ""]

\* ------------------------------------------------------------- validation
\* AppointmentRequest.Validate without the upper bound of the hour.
AppointmentRequestValidate_NoUpperBound(a) ==
    IF ~(a.hour >= startWorkHour)
    THEN ValidationError("hour", "out of working hours")
    ELSE IF IsZero(a.date)
         THEN ValidationError("date", "required")
         ELSE NoResp

\* AppointmentRequest.Validate: the error, or NoResp when valid
AppointmentRequestValidate(a) ==
    IF ~(a.hour >= startWorkHour /\ a.hour <= endWorkHour)
    THEN ValidationError("hour", "out of working hours")
    ELSE IF IsZero(a.date)
         THEN ValidationError("date", "required")
         ELSE NoResp

\* BlockPeriod.Validate without the test of the order of the dates.
BlockPeriodValidate_NoOrder(b) ==
    IF IsZero(b.start_date)
    THEN ValidationError("start_date", "required")
    ELSE IF IsZero(b.end_date)
         THEN ValidationError("end_date", "required")
         ELSE NoResp

\* BlockPeriod.Validate: the error, or NoResp when valid
BlockPeriodValidate(b) ==
    IF IsZero(b.start_date)
    THEN ValidationError("start_date", "required")
    ELSE IF IsZero(b.end_date)
         THEN ValidationError("end_date", "required")
         ELSE IF b.end_date < b.start_date
              THEN ValidationError("end_date", "invalid period")
              ELSE NoResp

\* ------------------------------------------------------------------ routes
\* Setup: the role each route group passes to AllowedRole.
RouteRole(op) ==
    IF op \in {"GetDoctorCalendar", "InsertAppointment"} THEN PatientRole ELSE DoctorRole

\* AllowedRole with the comparison of the roles inverted.
AllowedRole_Inverted(ctxUser, role) ==
    IF ctxUser = NoUser
    THEN Denied(StatusUnauthorized)
    ELSE IF ~(users[ctxUser] /= role)
         THEN Denied(StatusForbidden)
         ELSE NoResp

\* AllowedRole on a context that carries ctxUser (NoUser for none): the bare
\* status it writes, or NoResp when it calls the next handler.
AllowedRole(ctxUser, role) ==
    IF ctxUser = NoUser
    THEN Denied(StatusUnauthorized)
    ELSE IF users[ctxUser] /= role
         THEN Denied(StatusForbidden)
         ELSE NoResp


\* ---------------------------------------------------------------- requests
\* start_zone and end_zone are the offsets, in minutes east of UTC, that
\* start_date and end_date are written with in the JSON body.
Request(op, entry, user, doctorUUID, date, hour, start_date, end_date) ==
    [op |-> op, entry |-> entry, user |-> user, doctorUUID |-> doctorUUID, date |-> date,
     hour |-> hour, start_date |-> start_date, end_date |-> end_date,
     start_zone |-> UTCOffset * MinutesPerHour, end_zone |-> UTCOffset * MinutesPerHour]

\* The request with its block period written in other zones.
InZone(req, start_zone, end_zone) ==
    [req EXCEPT !.start_zone = start_zone, !.end_zone = end_zone]

NoRequest == Request("none", "none", 0, NoUUID, ZeroTime, 0, ZeroTime, ZeroTime)

IdleSlot ==
    [pc |-> "idle", req |-> NoRequest, ran |-> FALSE, doctor |-> NoDoctor,
     patient |-> NoPatient, appts |-> << >>, blks |-> {}, resp |-> NoResp]

\* The minute that starts hour h of day d (day 0 is 2021-08-10), plus m minutes.
At(d, h, m) == (d * MinutesPerDay) + (h * MinutesPerHour) + m

\* "route": the request comes through the router and its middlewares;
\* "service": the Service method is called directly;
\* "gate": AllowedRole is reached on a context no JwtValidator has touched.
Callers == {"route", "service"} \X DOMAIN SeedUsers
\* The seeded doctor's uuid and the uuid of no doctor.
DoctorUUIDs == {"D1", "DX"}
HourInputs == {8, 10, 17, 18}
\* Dates of the bookings; the zero time is what a direct call can pass.
BookingDates == {ZeroTime, At(0, 0, 0)}
\* Dates of the listings.
ListingDates == {At(0, 0, 0), At(1, 0, 0)}
BlockerTimes == {ZeroTime, At(0, 15, 0), At(0, 16, 30), At(1, 10, 0)}

GetDoctorCalendarRequests ==
    { Request("GetDoctorCalendar", c[1], c[2], d, t, 0, ZeroTime, ZeroTime) :
          c \in Callers, d \in DoctorUUIDs, t \in ListingDates }
InsertAppointmentRequests ==
    { Request("InsertAppointment", c[1], c[2], d, t, h, ZeroTime, ZeroTime) :
          c \in Callers, d \in DoctorUUIDs, t \in BookingDates, h \in HourInputs }
GetAppointmentsRequests ==
    { Request("GetAppointments", c[1], c[2], NoUUID, t, 0, ZeroTime, ZeroTime) :
          c \in Callers, t \in ListingDates }
\* The offsets the block periods are written with: Z and +02:00.
BlockerZones == {UTCOffset * MinutesPerHour, 2 * MinutesPerHour}
InsertBlockerRequests ==
    { InZone(Request("InsertBlocker", c[1], c[2], NoUUID, ZeroTime, 0, s, t), z[1], z[2]) :
          c \in Callers, s \in BlockerTimes, t \in BlockerTimes,
          z \in BlockerZones \X BlockerZones }

Requests ==
    GetDoctorCalendarRequests \cup InsertAppointmentRequests
        \cup GetAppointmentsRequests \cup InsertBlockerRequests

\* The requests of the interleaved specification: the seeded doctor's day 0.
RaceRequests ==
    { q \in Requests :
        /\ q.entry = "route"
        /\ q.user \in {1, 2}
        /\ q.doctorUUID \in {"D1", NoUUID}
        /\ q.op /= "InsertBlocker" => q.date = At(0, 0, 0)
        /\ q.hour \in {0, 17}
        /\ q.op = "InsertBlocker" =>
               /\ q.start_date = At(0, 15, 0) /\ q.end_date = At(1, 10, 0)
               /\ q.start_zone = q.end_zone }

\* Requests in flight that may still store a row.
Pending(op) ==
    Cardinality({ s \in Slots : slots[s].req.op = op /\ slots[s].pc \notin {"idle", "done"} })

\* The guards that keep the tables within the bounds.
Admit(req) ==
    /\ req.op = "InsertAppointment" =>
           BagCardinality(appointments) + Pending("InsertAppointment") < MaxAppointments
    /\ req.op = "InsertBlocker" =>
           BagCardinality(blockers) + Pending("InsertBlocker") < MaxBlockers

Finish(r, req, ran, resp) ==
    slots' = [slots EXCEPT ![r] =
                 [IdleSlot EXCEPT !.pc = "done", !.req = req, !.ran = ran, !.resp = resp]]

Passes(req) == req.entry = "service" \/ AllowedRole(req.user, RouteRole(req.op)) = NoResp

\* ----------------------------------------------------------------- actions
\* AllowedRole answers 401 or 403 and does not call the next handler.
AllowedRoleReject(r, req) ==
    /\ slots[r].pc = "idle"
    /\ Admit(req)
    /\ ~Passes(req)
    /\ Finish(r, req, FALSE, AllowedRole(req.user, RouteRole(req.op)))
    /\ UNCHANGED <<users, patients, doctors, appointments, blockers, localOffset, authVars, wire>>

\* GetDoctorCalendar up to its first read of the appointment table.
GetDoctorCalendarBegin(r, req) ==
    /\ slots[r].pc = "idle"
    /\ req.op = "GetDoctorCalendar"
    /\ Passes(req)
    /\ LET doctor == FindDoctorByUUID(req.doctorUUID)
       IN  IF doctor = NoDoctor
           THEN Finish(r, req, TRUE, writeResponseError(APIError(StatusNotFound, ErrDoctorNotFound)))
           ELSE slots' = [slots EXCEPT ![r] =
                    [IdleSlot EXCEPT !.pc = "listAppointments", !.req = req, !.ran = TRUE,
                                     !.doctor = doctor]]
    /\ UNCHANGED <<users, patients, doctors, appointments, blockers, localOffset, authVars, wire>>

\* GetAppointments up to its first read of the appointment table.
GetAppointmentsBegin(r, req) ==
    /\ slots[r].pc = "idle"
    /\ req.op = "GetAppointments"
    /\ Passes(req)
    /\ LET doctor == FindDoctorByUserID(req.user)
       IN  IF doctor = NoDoctor
           THEN Finish(r, req, TRUE, writeResponseError(
                       APIError(StatusForbidden, ErrOnlyDoctorCanCheckItsAppointments)))
           ELSE slots' = [slots EXCEPT ![r] =
                    [IdleSlot EXCEPT !.pc = "listAppointments", !.req = req, !.ran = TRUE,
                                     !.doctor = doctor]]
    /\ UNCHANGED <<users, patients, doctors, appointments, blockers, localOffset, authVars, wire>>

\* InsertAppointment up to the call of GetDoctorCalendar.
InsertAppointmentBegin(r, req) ==
    /\ slots[r].pc = "idle"
    /\ req.op = "InsertAppointment"
    /\ Admit(req)
    /\ Passes(req)
    /\ LET invalid == AppointmentRequestValidate(req)
           patient == FindPatientByUserID(req.user)
           doctor == FindDoctorByUUID(req.doctorUUID)
       IN  IF invalid /= NoResp
           THEN Finish(r, req, TRUE, writeResponseError(invalid))
           ELSE IF patient = NoPatient
           THEN Finish(r, req, TRUE, writeResponseError(
                       APIError(StatusForbidden, ErrOnlyPatientCanCreateAppointment)))
           ELSE IF doctor = NoDoctor
           THEN Finish(r, req, TRUE, writeResponseError(APIError(StatusNotFound, ErrDoctorNotFound)))
           ELSE slots' = [slots EXCEPT ![r] =
                    [IdleSlot EXCEPT !.pc = "listAppointments", !.req = req, !.ran = TRUE,
                                     !.doctor = doctor, !.patient = patient]]
    /\ UNCHANGED <<users, patients, doctors, appointments, blockers, localOffset, authVars, wire>>

\* InsertBlocker that refuses a period that holds an appointment of the doctor.
InsertBlockerBegin_RefusesBookedPeriod(r, req) ==
    /\ slots[r].pc = "idle"
    /\ req.op = "InsertBlocker"
    /\ Admit(req)
    /\ Passes(req)
    /\ LET doctor == FindDoctorByUserID(req.user)
           invalid == BlockPeriodValidate(req)
           booked == \E a \in BagToSet(appointments) :
                         /\ a.doctor_id = doctor
                         /\ Truncate(req.start_date, MinutesPerHour) <= a.date
                         /\ a.date <= Truncate(req.end_date, MinutesPerHour)
       IN  IF doctor = NoDoctor
           THEN Finish(r, req, TRUE,
                       writeResponseError(APIError(StatusForbidden, ErrOnlyDoctorCanCreateBlocker)))
           ELSE IF invalid /= NoResp
           THEN Finish(r, req, TRUE, writeResponseError(invalid))
           ELSE IF booked
           THEN Finish(r, req, TRUE,
                       writeResponseError(APIError(StatusBadRequest, ErrSlotNotAvailable)))
           ELSE slots' = [slots EXCEPT ![r] =
                    [IdleSlot EXCEPT !.pc = "insert", !.req = req, !.ran = TRUE,
                                     !.doctor = doctor]]
    /\ UNCHANGED <<users, patients, doctors, appointments, blockers, localOffset, authVars, wire>>

\* InsertBlocker that validates the period before it resolves the doctor.
InsertBlockerBegin_ValidatesFirst(r, req) ==
    /\ slots[r].pc = "idle"
    /\ req.op = "InsertBlocker"
    /\ Admit(req)
    /\ Passes(req)
    /\ LET doctor == FindDoctorByUserID(req.user)
           invalid == BlockPeriodValidate(req)
       IN  IF invalid /= NoResp
           THEN Finish(r, req, TRUE, writeResponseError(invalid))
           ELSE IF doctor = NoDoctor
           THEN Finish(r, req, TRUE,
                       writeResponseError(APIError(StatusForbidden, ErrOnlyDoctorCanCreateBlocker)))
           ELSE slots' = [slots EXCEPT ![r] =
                    [IdleSlot EXCEPT !.pc = "insert", !.req = req, !.ran = TRUE,
                                     !.doctor = doctor]]
    /\ UNCHANGED <<users, patients, doctors, appointments, blockers, localOffset, authVars, wire>>

\* InsertBlocker up to the insert.
InsertBlockerBegin(r, req) ==
    /\ slots[r].pc = "idle"
    /\ req.op = "InsertBlocker"
    /\ Admit(req)
    /\ Passes(req)
    /\ LET doctor == FindDoctorByUserID(req.user)
           invalid == BlockPeriodValidate(req)
       IN  IF doctor = NoDoctor
           THEN Finish(r, req, TRUE,
                       writeResponseError(APIError(StatusForbidden, ErrOnlyDoctorCanCreateBlocker)))
           ELSE IF invalid /= NoResp
           THEN Finish(r, req, TRUE, writeResponseError(invalid))
           ELSE slots' = [slots EXCEPT ![r] =
                    [IdleSlot EXCEPT !.pc = "insert", !.req = req, !.ran = TRUE,
                                     !.doctor = doctor]]
    /\ UNCHANGED <<users, patients, doctors, appointments, blockers, localOffset, authVars, wire>>

\* repository.ListAppointments
ReadAppointments(r) ==
    /\ slots[r].pc = "listAppointments"
    /\ \E rows \in ListAppointmentsOrders(slots[r].doctor, slots[r].req.date) :
           slots' = [slots EXCEPT ![r].pc = "listBlockers", ![r].appts = rows]
    /\ UNCHANGED <<users, patients, doctors, appointments, blockers, localOffset, authVars, wire>>

\* repository.ListBlockers and the rest of the read: the entries of the two
\* listings, and in InsertAppointment the slotIsAvailable test.
ReadBlockers(r) ==
    /\ slots[r].pc = "listBlockers"
    /\ LET s == slots[r]
           blks == ListBlockers(s.doctor, s.req.date)
           calendar == DoctorCalendarLoop(s.appts, blks, s.req.date, startWorkHour)
       IN  IF s.req.op = "GetDoctorCalendar"
           THEN slots' = [slots EXCEPT ![r].pc = "done", ![r].blks = blks,
                                       ![r].resp = Ok(StatusOK, calendar)]
           ELSE IF s.req.op = "GetAppointments"
           THEN slots' = [slots EXCEPT ![r].pc = "done", ![r].blks = blks,
                              ![r].resp = Ok(StatusOK,
                                  AppointmentsLoop(s.appts, blks, s.req.date, startWorkHour))]
           ELSE IF ~slotIsAvailable(calendar, s.req.hour)
           THEN slots' = [slots EXCEPT ![r].pc = "done", ![r].blks = blks,
                              ![r].resp = writeResponseError(
                                  APIError(StatusBadRequest, ErrSlotNotAvailable))]
           ELSE slots' = [slots EXCEPT ![r].pc = "insert", ![r].blks = blks]
    /\ UNCHANGED <<users, patients, doctors, appointments, blockers, localOffset, authVars, wire>>

\* The row InsertAppointment builds.
NewAppointment(s) ==
    [doctor_id |-> s.doctor, patient_id |-> s.patient,
     date |-> Timestamp(TimeDate(s.req.date, s.req.hour, ParsedDateOffset),
                        ParsedDateOffset * MinutesPerHour)]

\* repository.InsertAppointment that stores the row twice.
InsertAppointmentCommit_Twice(r) ==
    /\ slots[r].pc = "insert"
    /\ slots[r].req.op = "InsertAppointment"
    /\ appointments' = appointments (+) SetToBag({NewAppointment(slots[r])})
                                    (+) SetToBag({NewAppointment(slots[r])})
    /\ slots' = [slots EXCEPT ![r].pc = "done", ![r].resp = Ok(StatusCreated, << >>)]
    /\ UNCHANGED <<users, patients, doctors, blockers, localOffset, authVars, wire>>

\* repository.InsertAppointment
InsertAppointmentCommit(r) ==
    /\ slots[r].pc = "insert"
    /\ slots[r].req.op = "InsertAppointment"
    /\ appointments' = appointments (+) SetToBag({NewAppointment(slots[r])})
    /\ slots' = [slots EXCEPT ![r].pc = "done", ![r].resp = Ok(StatusCreated, << >>)]
    /\ UNCHANGED <<users, patients, doctors, blockers, localOffset, authVars, wire>>

\* The row InsertBlocker builds, as the table keeps it: Truncate leaves each
\* date in the zone the body gave it.
NewBlocker(s) ==
    [doctor_id |-> s.doctor,
     start_date |-> Timestamp(Truncate(s.req.start_date, MinutesPerHour), s.req.start_zone),
     end_date |-> Timestamp(Truncate(s.req.end_date, MinutesPerHour), s.req.end_zone)]

\* repository.InsertBlocker
InsertBlockerCommit(r) ==
    /\ slots[r].pc = "insert"
    /\ slots[r].req.op = "InsertBlocker"
    /\ blockers' = blockers (+) SetToBag({NewBlocker(slots[r])})
    /\ slots' = [slots EXCEPT ![r].pc = "done", ![r].resp = Ok(StatusCreated, << >>)]
    /\ UNCHANGED <<users, patients, doctors, appointments, localOffset, authVars, wire>>

\* The response is written and the request is over.
Reply(r) ==
    /\ slots[r].pc = "done"
    /\ slots' = [slots EXCEPT ![r] = IdleSlot]
    /\ UNCHANGED <<users, patients, doctors, appointments, blockers, localOffset, authVars, wire>>

\* ---------------------------------------------------------------- failures
\* The handler is reached with no user in the context: GetAuthenticatedUser
\* fails and the service is not called.
NoUserAttached(r, req) ==
    /\ slots[r].pc = "idle"
    /\ req.entry = "handler"
    /\ Finish(r, req, TRUE, writeResponseError(CalendarUnauthorizedError))
    /\ UNCHANGED <<users, patients, doctors, appointments, blockers, localOffset, authVars, wire>>

\* The repository calls a service method makes before its first listing, in
\* the order it makes them; a call is made when the ones before found a row.
LookupCalls(req) ==
    IF req.op = "GetDoctorCalendar" THEN {"FindDoctorByUUID"}
    ELSE IF req.op \in {"GetAppointments", "InsertBlocker"} THEN {"FindDoctorByUserID"}
    ELSE IF AppointmentRequestValidate(req) /= NoResp THEN {}
    ELSE IF FindPatientByUserID(req.user) = NoPatient THEN {"FindPatientByUserID"}
    ELSE {"FindPatientByUserID", "FindDoctorByUUID"}

\* One of these calls returns an error.
LookupFails(r, req) ==
    /\ slots[r].pc = "idle"
    /\ req.entry /= "handler"
    /\ Admit(req)
    /\ Passes(req)
    /\ \E call \in LookupCalls(req) :
           Finish(r, req, TRUE, writeResponseError(OtherError(ErrDriver)))
    /\ UNCHANGED <<users, patients, doctors, appointments, blockers, localOffset, authVars, wire>>

\* repository.ListAppointments returns an error.
ListAppointmentsFails(r) ==
    /\ slots[r].pc = "listAppointments"
    /\ slots' = [slots EXCEPT ![r].pc = "done",
                              ![r].resp = writeResponseError(OtherError(ErrDriver))]
    /\ UNCHANGED <<users, patients, doctors, appointments, blockers, localOffset, authVars, wire>>

\* repository.ListBlockers returns an error, or FindPatientByID does for a
\* booked hour of GetAppointments.
ListBlockersFails(r) ==
    /\ slots[r].pc = "listBlockers"
    /\ slots' = [slots EXCEPT ![r].pc = "done",
                              ![r].resp = writeResponseError(OtherError(ErrDriver))]
    /\ UNCHANGED <<users, patients, doctors, appointments, blockers, localOffset, authVars, wire>>

\* repository.InsertAppointment or InsertBlocker returns an error: the
\* statement failed or affected no row.  Nothing is stored.
InsertFails(r) ==
    /\ slots[r].pc = "insert"
    /\ \E err \in {ErrDriver,
                   IF slots[r].req.op = "InsertAppointment"
                   THEN ErrAppointmentNotInserted ELSE ErrBlockerNotInserted} :
           slots' = [slots EXCEPT ![r].pc = "done",
                                  ![r].resp = writeResponseError(OtherError(err))]
    /\ UNCHANGED <<users, patients, doctors, appointments, blockers, localOffset, authVars, wire>>

\* ----------------------------------------------------------------- parsing
\* A path parameter is the sequence of its characters.
DigitValue ==
    ("0" :> 0) @@ ("1" :> 1) @@ ("2" :> 2) @@ ("3" :> 3) @@ ("4" :> 4) @@
    ("5" :> 5) @@ ("6" :> 6) @@ ("7" :> 7) @@ ("8" :> 8) @@ ("9" :> 9)

RECURSIVE DigitsValue(_)
DigitsValue(str) ==
    IF str = << >> THEN 0
    ELSE (DigitsValue(SubSeq(str, 1, Len(str) - 1)) * 10) + DigitValue[str[Len(str)]]

\* strconv.Atoi: an optional sign and at least one digit.
Atoi(str) ==
    LET signed == str /= << >> /\ str[1] \in {"+", "-"}
        digits == IF signed THEN Tail(str) ELSE str
    IN  IF digits = << >> \/ \E i \in DOMAIN digits : digits[i] \notin DOMAIN DigitValue
        THEN [ok |-> FALSE, value |-> 0]
        ELSE [ok |-> TRUE,
              value |-> IF signed /\ str[1] = "-"
                        THEN 0 - DigitsValue(digits) ELSE DigitsValue(digits)]

ErrInvalidIdentifier == "invalid identifier"
ErrInvalidDateReference == "invalid date reference"
ErrInvalidYearReference == "invalid year reference - e.g. 2021"
ErrInvalidMonthReference == "invalid month reference - e.g. 08"
ErrInvalidDayReference == "invalid day reference - e.g. 10"

IsLeapYear(y) == (y % 4 = 0 /\ y % 100 /= 0) \/ y % 400 = 0

DaysIn(y, m) ==
    IF m = 2 THEN (IF IsLeapYear(y) THEN 29 ELSE 28)
    ELSE IF m \in {4, 6, 9, 11} THEN 30 ELSE 31

\* Days from 1970-01-01 to the day y-m-d of the proleptic Gregorian calendar.
DaysFromCivil(y, m, d) ==
    LET yy == IF m <= 2 THEN y - 1 ELSE y
        era == yy \div 400
        yoe == yy - (era * 400)
        doy == (((153 * (IF m > 2 THEN m - 3 ELSE m + 9)) + 2) \div 5) + d - 1
        doe == (yoe * 365) + (yoe \div 4) - (yoe \div 100) + doy
    IN  (era * 146097) + doe - 719468

\* time.Parse("2006-01-02", fmt.Sprintf("%4d-%02d-%02d", y, m, d)): the
\* year must print as four digits (a shorter one is padded with spaces), the
\* month and the day as two, and the day must exist.  The time is UTC.
ParseDate(y, m, d) ==
    IF y >= 1000 /\ y <= 9999 /\ m >= 1 /\ m <= 12 /\ d >= 1 /\ d <= DaysIn(y, m)
    THEN [ok |-> TRUE,
          date |-> (DaysFromCivil(y, m, d) - DaysFromCivil(2021, 8, 10)) * MinutesPerDay]
    ELSE [ok |-> FALSE, date |-> ZeroTime]

\* parseDateParameters: the error, NoResp when there is none, and the date.
parseDateParameters(year, month, day) ==
    LET yearInt == Atoi(year)
        monthInt == Atoi(month)
        dayInt == Atoi(day)
        parsed == ParseDate(yearInt.value, monthInt.value, dayInt.value)
    IN  IF year = << >> \/ month = << >> \/ day = << >>
        THEN [err |-> APIError(StatusNotFound, ErrInvalidDateReference), date |-> ZeroTime]
        ELSE IF Len(year) /= 4 \/ ~yearInt.ok
        THEN [err |-> APIError(StatusBadRequest, ErrInvalidYearReference), date |-> ZeroTime]
        ELSE IF Len(month) > 2 \/ ~monthInt.ok
        THEN [err |-> APIError(StatusBadRequest, ErrInvalidMonthReference), date |-> ZeroTime]
        ELSE IF Len(day) > 2 \/ ~dayInt.ok
        THEN [err |-> APIError(StatusBadRequest, ErrInvalidDayReference), date |-> ZeroTime]
        ELSE IF ~parsed.ok
        THEN [err |-> APIError(StatusBadRequest, ErrInvalidDateReference), date |-> ZeroTime]
        ELSE [err |-> NoResp, date |-> parsed.date]

\* uuid.UUID{}
ZeroUUID == "00000000-0000-0000-0000-000000000000"

\* The strings uuid.Parse accepts: the names the model gives to the seeded
\* doctor's uuid and to the uuid of no doctor, and the nil UUID.
DoctorUUIDStrings == {"D1", "DX", ZeroUUID}

\* parseUUIDParameter: the error, NoResp when there is none, and the UUID.
parseUUIDParameter(uuidPar) ==
    IF uuidPar = ""
    THEN [err |-> APIError(StatusNotFound, ErrInvalidIdentifier), uuid |-> ZeroUUID]
    ELSE IF uuidPar \notin DoctorUUIDStrings
    THEN [err |-> APIError(StatusBadRequest, ErrInvalidIdentifier), uuid |-> ZeroUUID]
    ELSE [err |-> NoResp, uuid |-> uuidPar]

\* json.Decoder.Decode: the error of a body that is no JSON of the type.
DecodeBody(malformed) == IF malformed THEN OtherError("json") ELSE NoResp

\* ---------------------------------------------------------------- handlers
\* A request as the router hands it to a calendar handler, the user of the
\* token attached by JwtValidator and passed by AllowedRole.
PathRequest(op, user, year, month, day, doctorUUID, malformed, hour, start_date, end_date) ==
    [op |-> op, user |-> user, year |-> year, month |-> month, day |-> day,
     doctorUUID |-> doctorUUID, malformed |-> malformed, hour |-> hour,
     start_date |-> start_date, end_date |-> end_date]

NoPathRequest == PathRequest("none", NoUser, << >>, << >>, << >>, "", FALSE, 0, ZeroTime, ZeroTime)

\* What a handler did: the statuses passed to WriteHeader and the bodies
\* encoded, in order (the client sees the first status and all the bodies),
\* and the calls made to the calendar service and its repository.
Wire(req, statuses, bodies, calls) ==
    [req |-> req, statuses |-> statuses, bodies |-> bodies, calls |-> calls]

NoWire == Wire(NoPathRequest, << >>, << >>, << >>)

\* One call of writeResponseError: the status, and the error as body when
\* the error has one.
WriteError(w, err) ==
    LET resp == writeResponseError(err)
    IN  [w EXCEPT !.statuses = Append(@, resp.status),
                  !.bodies = IF resp.kind \in {"ValidationError", "APIError"}
                             THEN Append(@, resp.detail) ELSE @]

\* The request the handler passes to the service.
ServiceRequest(q) ==
    Request(q.op, "route", q.user,
            IF q.op \in {"GetDoctorCalendar", "InsertAppointment"}
            THEN parseUUIDParameter(q.doctorUUID).uuid ELSE NoUUID,
            IF q.op = "InsertBlocker"
            THEN ZeroTime ELSE parseDateParameters(q.year, q.month, q.day).date,
            q.hour, q.start_date, q.end_date)

\* The first parse of the handler that fails, in the order the handler
\* parses: NoResp when the service is reached with everything parsed.
ParseError(q) ==
    LET date == parseDateParameters(q.year, q.month, q.day).err
        uuid == parseUUIDParameter(q.doctorUUID).err
        body == DecodeBody(q.malformed)
    IN  IF q.op = "GetDoctorCalendar" THEN (IF date /= NoResp THEN date ELSE uuid)
        ELSE IF q.op = "InsertAppointment"
        THEN (IF date /= NoResp THEN date ELSE IF uuid /= NoResp THEN uuid ELSE body)
        ELSE IF q.op = "GetAppointments" THEN date
        ELSE body

\* GetDoctorCalendar writes the error of parseUUIDParameter and goes on with
\* the zero UUID: GetAuthenticatedUser, then the service, whose lookup finds
\* no doctor or fails, and a second call of writeResponseError.
GetDoctorCalendarGoesOn(q, fault) ==
    /\ q.op = "GetDoctorCalendar"
    /\ AllowedRole(q.user, RouteRole(q.op)) = NoResp
    /\ parseDateParameters(q.year, q.month, q.day).err = NoResp
    /\ parseUUIDParameter(q.doctorUUID).err /= NoResp
    /\ LET first == WriteError(Wire(q, << >>, << >>, << >>), parseUUIDParameter(q.doctorUUID).err)
           doctor == FindDoctorByUUID(parseUUIDParameter(q.doctorUUID).uuid)
           err == IF fault THEN OtherError(ErrDriver)
                  ELSE IF doctor = NoDoctor THEN APIError(StatusNotFound, ErrDoctorNotFound)
                  ELSE NoResp
           called == [first EXCEPT !.calls = <<"GetDoctorCalendar", "FindDoctorByUUID">>]
       IN  /\ err /= NoResp
           /\ wire' = WriteError(called, err)
    /\ UNCHANGED <<users, patients, doctors, appointments, blockers, localOffset, slots, authVars>>

\* A handler writes the error of the parse that failed and returns.
ParseFails(q) ==
    /\ AllowedRole(q.user, RouteRole(q.op)) = NoResp
    /\ ParseError(q) /= NoResp
    /\ ~( /\ q.op = "GetDoctorCalendar"
          /\ parseDateParameters(q.year, q.month, q.day).err = NoResp )
    /\ wire' = WriteError(Wire(q, << >>, << >>, << >>), ParseError(q))
    /\ UNCHANGED <<users, patients, doctors, appointments, blockers, localOffset, slots, authVars>>

\* ==================================================================== auth
\* Durations in minutes.
AccessTokenExpiration == 5
RefreshTokenExpiration == 1440

AccessTokenType == "access"
RefreshTokenType == "refresh"

\* tb_user.uuid and tb_user.email of the stored users.
UserUUID == (1 :> "U1") @@ (2 :> "U2")
UserEmail == (1 :> "patient@hospital.com") @@ (2 :> "doctor@hospital.com")

\* bcrypt.GenerateFromPassword: the hash of a plain password.
EncryptPassword(pass) == <<"bcrypt", pass>>

\* tb_user.password: user u was seeded with the hash of its own password.
UserPlainPassword == (1 :> "pw1") @@ (2 :> "pw2")
UserPassword == [u \in DOMAIN UserPlainPassword |-> EncryptPassword(UserPlainPassword[u])]

\* The hash CheckUserPassword compares with when no row is scanned.
NoHash == <<"", "">>

\* ComparePasswords that accepts any password against a stored hash.
ComparePasswords_AnyPassword(hashedPass, plainPass) == hashedPass /= NoHash

\* bcrypt.CompareHashAndPassword
ComparePasswords(hashedPass, plainPass) == hashedPass = EncryptPassword(plainPass)

\* The strings that parse as a UUID; "UX" is the UUID of no stored user.
UUIDStrings == {"U1", "U2", "UX"}

\* uuid.Parse succeeds.
IsUUID(str) == str \in UUIDStrings

\* -------------------------------------------------------- auth repository
FindUserByUUID(uuid) ==
    IF \E u \in DOMAIN users : UserUUID[u] = uuid
    THEN CHOOSE u \in DOMAIN users : UserUUID[u] = uuid
    ELSE NoUser

FindUserByEmail(email) ==
    IF \E u \in DOMAIN users : UserEmail[u] = email
    THEN CHOOSE u \in DOMAIN users : UserEmail[u] = email
    ELSE NoUser

\* CheckUserPassword: the stored hash of the email's row against the password.
CheckUserPassword(email, password) ==
    LET u == FindUserByEmail(email)
        hashedPass == IF u = NoUser THEN NoHash ELSE UserPassword[u]
    IN  ComparePasswords(hashedPass, password)

\* ------------------------------------------------------------------ tokens
\* The claims of a jwt.Token; exp and iat are instants.
Claims(sub, role, typ, iat, exp) ==
    [sub |-> sub, role |-> role, typ |-> typ, iat |-> iat, exp |-> exp]

NoClaims == Claims("", "", "", ZeroTime, ZeroTime)

\* A string offered as a token: empty, not a JWS at all, or a compact JWS
\* carrying claims under the signature of a key.
TokenString(form, claims, key) == [form |-> form, claims |-> claims, key |-> key]

EmptyString == TokenString("empty", NoClaims, "none")
Garbage == TokenString("garbage", NoClaims, "none")

\* config.PrivateKey() and a key the server does not hold.
ServerKey == "server"
OtherKey == "other"

\* SignToken: the compact serialisation of the claims under the key.
SignToken(claims, privateKey) == TokenString("jws", claims, privateKey)

\* The outcome of a parse: the claims, or an error.
Parsed(ok, claims) == [ok |-> ok, claims |-> claims]

\* ParseToken: jwt.Parse with jwt.WithVerify(RS512, publicKey).
ParseToken(token, publicKey) ==
    IF token.form = "jws" /\ token.key = publicKey
    THEN Parsed(TRUE, token.claims)
    ELSE Parsed(FALSE, NoClaims)

\* jwt.ParseString made to verify the signature with the server's key.
ParseString_VerifiesSignature(token) ==
    IF token.form = "jws" /\ token.key = ServerKey
    THEN Parsed(TRUE, token.claims)
    ELSE Parsed(FALSE, NoClaims)

\* jwt.ParseString without options: the payload is decoded, no signature is verified.
ParseString(token) ==
    IF token.form = "jws"
    THEN Parsed(TRUE, token.claims)
    ELSE Parsed(FALSE, NoClaims)

\* A pair of token strings.
Tokens(access, refresh) == [access_token |-> access, refresh_token |-> refresh]

NoTokens == Tokens(EmptyString, EmptyString)

\* GenerateTokens with an access token that lives ten minutes.
GenerateTokens_TenMinutes(user, t) ==
    Tokens(SignToken(Claims(UserUUID[user], users[user], AccessTokenType, t, t + 10), ServerKey),
           SignToken(Claims(UserUUID[user], users[user], RefreshTokenType, t,
                            t + RefreshTokenExpiration), ServerKey))

\* GenerateTokens for a stored user at time t.
GenerateTokens(user, t) ==
    Tokens(SignToken(Claims(UserUUID[user], users[user], AccessTokenType, t,
                            t + AccessTokenExpiration), ServerKey),
           SignToken(Claims(UserUUID[user], users[user], RefreshTokenType, t,
                            t + RefreshTokenExpiration), ServerKey))

\* ---------------------------------------------------------- auth outcomes
\* What a service method returns or a handler writes.  kind is "ok", the
\* type of the error, or "panic"; status is set by the handler.
AuthResult(status, kind, field, detail, user, tokens) ==
    [status |-> status, kind |-> kind, field |-> field, detail |-> detail,
     user |-> user, tokens |-> tokens]

NoAuthResult == AuthResult(0, "none", "", "", NoUser, NoTokens)

\* NewUnauthorizedError()
UnauthorizedError == AuthResult(0, "UnauthorizedError", "", "", NoUser, NoTokens)

\* apierrors.NewValidationError(field, detail), as returned by the auth service
AuthValidationError(field, detail) ==
    AuthResult(0, "ValidationError", field, detail, NoUser, NoTokens)

\* fmt.Errorf("an unexpected error occurred: %w", err)
UnexpectedError == AuthResult(0, "error", "", "", NoUser, NoTokens)

\* uuid.MustParse panics.
Panic == AuthResult(0, "panic", "", "", NoUser, NoTokens)

UserResult(user) == AuthResult(0, "ok", "", "", user, NoTokens)
TokensResult(tokens) == AuthResult(0, "ok", "", "", NoUser, tokens)

\* ------------------------------------------------------------ validation
\* Credentials.Validate: the error, or NoAuthResult when valid
CredentialsValidate(c) ==
    IF c.email = ""
    THEN AuthValidationError("email", "required")
    ELSE IF c.password = ""
         THEN AuthValidationError("password", "required")
         ELSE NoAuthResult

\* Tokens.Validate: the error, or NoAuthResult when valid
TokensValidate(c) ==
    IF c.access_token = EmptyString
    THEN AuthValidationError("access_token", "required")
    ELSE IF c.refresh_token = EmptyString
         THEN AuthValidationError("refresh_token", "required")
         ELSE IF c.grant_type = ""
              THEN AuthValidationError("grant_type", "required")
              ELSE IF c.grant_type /= "refresh_token"
                   THEN AuthValidationError("grant_type", "invalid")
                   ELSE NoAuthResult

\* ------------------------------------------------------------ auth service
\* An Authorization header, or the string given to ValidateToken: a prefix
\* followed by a token string.  The missing header is the empty string.
Header(prefix, token) == [prefix |-> prefix, token |-> token]

NoHeader == Header("", EmptyString)

\* strings.HasPrefix(header, "Bearer ")
HasBearerPrefix(header) == header.prefix = "Bearer "

\* strings.TrimPrefix(header, "Bearer "): what is left is parsed as a token;
\* a string that keeps another prefix is no JWS.
TrimBearerPrefix(header) ==
    IF header.prefix = "Bearer " \/ header.prefix = ""
    THEN header.token
    ELSE Garbage

\* In the service methods the repository call named by fault fails, if the
\* method gets to it; the handlers below take a fault only when it changes
\* the outcome.
\* Authenticate at time t.
Authenticate(credentials, t, fault) ==
    LET invalid == CredentialsValidate(credentials)
        user == FindUserByEmail(credentials.email)
    IN  IF invalid /= NoAuthResult
        THEN invalid
        ELSE IF fault = "FindUserByEmail"
        THEN UnexpectedError
        ELSE IF user = NoUser
        THEN UnauthorizedError
        ELSE IF fault = "CheckUserPassword"
        THEN UnexpectedError
        ELSE IF ~CheckUserPassword(credentials.email, credentials.password)
        THEN UnauthorizedError
        ELSE TokensResult(GenerateTokens(user, t))

\* ValidateToken that accepts a token up to and including its expiration.
ValidateToken_AcceptsAtExpiration(token, t, fault) ==
    LET parsedToken == ParseToken(TrimBearerPrefix(token), ServerKey)
        user == FindUserByUUID(parsedToken.claims.sub)
    IN  IF ~parsedToken.ok
        THEN UnauthorizedError
        ELSE IF t > parsedToken.claims.exp
        THEN UnauthorizedError
        ELSE IF ~IsUUID(parsedToken.claims.sub)
        THEN Panic
        ELSE IF fault = "FindUserByUUID"
        THEN UnauthorizedError
        ELSE IF user = NoUser
        THEN UnauthorizedError
        ELSE UserResult(user)

\* ValidateToken that refuses a token once a later pair was issued to its subject.
ValidateToken_RefusesSuperseded(token, t, fault) ==
    LET parsedToken == ParseToken(TrimBearerPrefix(token), ServerKey)
        user == FindUserByUUID(parsedToken.claims.sub)
    IN  IF ~parsedToken.ok
        THEN UnauthorizedError
        ELSE IF ~(t < parsedToken.claims.exp)
        THEN UnauthorizedError
        ELSE IF \E p \in issued : p.user = user /\ p.at > parsedToken.claims.iat
        THEN UnauthorizedError
        ELSE IF ~IsUUID(parsedToken.claims.sub)
        THEN Panic
        ELSE IF fault = "FindUserByUUID"
        THEN UnauthorizedError
        ELSE IF user = NoUser
        THEN UnauthorizedError
        ELSE UserResult(user)

\* ValidateToken made to accept access tokens only.
ValidateToken_RequiresAccessType(token, t, fault) ==
    LET parsedToken == ParseToken(TrimBearerPrefix(token), ServerKey)
        user == FindUserByUUID(parsedToken.claims.sub)
    IN  IF ~parsedToken.ok
        THEN UnauthorizedError
        ELSE IF parsedToken.claims.typ /= AccessTokenType
        THEN UnauthorizedError
        ELSE IF ~(t < parsedToken.claims.exp)
        THEN UnauthorizedError
        ELSE IF ~IsUUID(parsedToken.claims.sub)
        THEN Panic
        ELSE IF fault = "FindUserByUUID"
        THEN UnauthorizedError
        ELSE IF user = NoUser
        THEN UnauthorizedError
        ELSE UserResult(user)

\* ValidateToken at time t.
ValidateToken(token, t, fault) ==
    LET parsedToken == ParseToken(TrimBearerPrefix(token), ServerKey)
        user == FindUserByUUID(parsedToken.claims.sub)
    IN  IF ~parsedToken.ok
        THEN UnauthorizedError
        ELSE IF ~(t < parsedToken.claims.exp)
        THEN UnauthorizedError
        ELSE IF ~IsUUID(parsedToken.claims.sub)
        THEN Panic
        ELSE IF fault = "FindUserByUUID"
        THEN UnauthorizedError
        ELSE IF user = NoUser
        THEN UnauthorizedError
        ELSE UserResult(user)

\* RefreshTokens before it calls the repository, the clock read at time t:
\* what it returns, NoAuthResult when it goes on to FindUserByUUID.
RefreshTokensChecks(tokens, t) ==
    LET invalid == TokensValidate(tokens)
        refreshToken == ParseString(tokens.refresh_token)
    IN  IF invalid /= NoAuthResult
        THEN invalid
        ELSE IF ~refreshToken.ok
        THEN UnauthorizedError
        ELSE IF ~(t < refreshToken.claims.exp)
        THEN UnauthorizedError
        ELSE IF ~IsUUID(refreshToken.claims.sub)
        THEN Panic
        ELSE NoAuthResult

\* RefreshTokens: the clock is read at time t for the expiration of the
\* refresh token and, after the repository has answered, at time u by
\* GenerateTokens.
RefreshTokens(tokens, t, u, fault) ==
    LET early == RefreshTokensChecks(tokens, t)
        user == FindUserByUUID(ParseString(tokens.refresh_token).claims.sub)
    IN  IF early /= NoAuthResult
        THEN early
        ELSE IF fault = "FindUserByUUID"
        THEN UnexpectedError
        ELSE IF user = NoUser
        THEN UnauthorizedError
        ELSE TokensResult(GenerateTokens(user, u))

\* GetAuthenticatedUser on a context that carries ctxUser, NoUser for none.
GetAuthenticatedUser(ctxUser) ==
    IF ctxUser = NoUser THEN UnauthorizedError ELSE UserResult(ctxUser)

\* ------------------------------------------------------------ middlewares
\* JwtValidator that lets a request without a header through.
JwtValidator_PassesMissingHeader(header, t, fault) ==
    LET result == ValidateToken(header, t, fault)
    IN  IF header = NoHeader
        THEN [next |-> TRUE, ctxUser |-> NoUser, result |-> NoAuthResult]
        ELSE IF ~HasBearerPrefix(header)
        THEN [next |-> FALSE, ctxUser |-> NoUser,
              result |-> [NoAuthResult EXCEPT !.status = StatusUnauthorized,
                                              !.kind = "middleware"]]
        ELSE IF result.kind = "panic"
        THEN [next |-> FALSE, ctxUser |-> NoUser, result |-> result]
        ELSE IF result.kind /= "ok"
        THEN [next |-> FALSE, ctxUser |-> NoUser,
              result |-> [NoAuthResult EXCEPT !.status = StatusUnauthorized,
                                              !.kind = "middleware"]]
        ELSE [next |-> TRUE, ctxUser |-> result.user, result |-> NoAuthResult]

\* JwtValidator: whether the next handler is called, the User attached to
\* its context, and what the middleware wrote otherwise.
JwtValidator(header, t, fault) ==
    LET result == ValidateToken(header, t, fault)
    IN  IF header = NoHeader \/ ~HasBearerPrefix(header)
        THEN [next |-> FALSE, ctxUser |-> NoUser,
              result |-> [NoAuthResult EXCEPT !.status = StatusUnauthorized,
                                              !.kind = "middleware"]]
        ELSE IF result.kind = "panic"
        THEN [next |-> FALSE, ctxUser |-> NoUser, result |-> result]
        ELSE IF result.kind /= "ok"
        THEN [next |-> FALSE, ctxUser |-> NoUser,
              result |-> [NoAuthResult EXCEPT !.status = StatusUnauthorized,
                                              !.kind = "middleware"]]
        ELSE [next |-> TRUE, ctxUser |-> result.user, result |-> NoAuthResult]

\* ------------------------------------------------------------ auth handlers
\* The switch of the auth handlers on the type of the error, behind
\* middleware.Recoverer; only a ValidationError is written as a body.
WriteAuthResult(result) ==
    IF result.kind = "ok"
    THEN [result EXCEPT !.status = StatusOK]
    ELSE IF result.kind = "UnauthorizedError"
    THEN [result EXCEPT !.status = StatusUnauthorized]
    ELSE IF result.kind = "ValidationError"
    THEN [result EXCEPT !.status = StatusBadRequest]
    ELSE [result EXCEPT !.status = StatusInternalServerError]

\* json.NewDecoder(r.Body).Decode fails: 400 without a body.
DecodeError == AuthResult(StatusBadRequest, "decode", "", "", NoUser, NoTokens)

\* A request body of the auth routes.
Body(malformed, email, password, access_token, refresh_token, grant_type) ==
    [malformed |-> malformed, email |-> email, password |-> password,
     access_token |-> access_token, refresh_token |-> refresh_token,
     grant_type |-> grant_type]

NoBody == Body(FALSE, "", "", EmptyString, EmptyString, "")

\* entry "route": through the router; "handler": the handler on a bare context.
AuthRequest(op, entry, body, header) ==
    [op |-> op, entry |-> entry, body |-> body, header |-> header]

\* The record of a served auth request: at is the clock when the service
\* checked an expiration, doneAt the clock when it was through.
Exchange(req, at, doneAt, fault, ran, ctxUser, resp) ==
    [req |-> req, at |-> at, doneAt |-> doneAt, fault |-> fault, ran |-> ran,
     ctxUser |-> ctxUser, resp |-> resp]

NoExchange ==
    Exchange(AuthRequest("none", "none", NoBody, NoHeader), 0, 0, "none", FALSE, NoUser,
             NoAuthResult)

\* A RefreshTokens call that waits for FindUserByUUID: its request and the
\* clock it read for the expiration.
Refreshing(req, at) == [req |-> req, at |-> at]

NotRefreshing == Refreshing(AuthRequest("none", "none", NoBody, NoHeader), 0)

\* A pair handed out to user at time at, via "login" or "refresh".
IssuedPair(tokens, user, at, via) == [tokens |-> tokens, user |-> user, at |-> at, via |-> via]

\* The user a token pair was generated for.
SubjectOf(tokens) == FindUserByUUID(tokens.access_token.claims.sub)

\* ------------------------------------------------------------ auth requests
\* The instants the clock visits: around the expiration of an access token
\* issued at 0 and at the expiration of its refresh token.
ClockPoints == {0, 4, 5, RefreshTokenExpiration}

\* An expiration later than every instant of the clock.
Later == RefreshTokenExpiration + RefreshTokenExpiration

EmailInputs == {"", "patient@hospital.com", "doctor@hospital.com", "nobody@hospital.com"}
PasswordInputs == {"", "pw1", "pw2"}
GrantTypeInputs == {"", "refresh_token", "password"}

\* Token strings the server never issued: a refresh token for user 1 signed
\* with another key, one whose subject is no UUID, one that expired at 0, a
\* token of the server's key whose subject is no longer stored, and a
\* string that is no JWS.
ForgedStrings ==
    { SignToken(Claims("U1", PatientRole, RefreshTokenType, 0, Later), OtherKey),
      SignToken(Claims("not-a-uuid", PatientRole, RefreshTokenType, 0, Later), OtherKey),
      SignToken(Claims("U1", PatientRole, RefreshTokenType, 0, 0), OtherKey),
      SignToken(Claims("UX", PatientRole, AccessTokenType, 0, Later), ServerKey),
      Garbage }

\* The token strings the server handed out so far.
IssuedStrings ==
    UNION { {p.tokens.access_token, p.tokens.refresh_token} : p \in issued }

TokenInputs == IssuedStrings \cup ForgedStrings

AuthenticateRequests ==
    { AuthRequest("Authenticate", "route", Body(FALSE, e, p, EmptyString, EmptyString, ""),
                  NoHeader) : e \in EmailInputs, p \in PasswordInputs }
        \cup { AuthRequest("Authenticate", "route", [NoBody EXCEPT !.malformed = TRUE], NoHeader) }

\* A refresh token that passes every check of RefreshTokens while the clock runs.
AcceptableRefreshToken ==
    SignToken(Claims("U1", PatientRole, RefreshTokenType, 0, Later), OtherKey)

\* An access token nobody can use: signed with another key, for no stored
\* user, expired.
UselessAccessToken ==
    SignToken(Claims("UX", DoctorRole, AccessTokenType, 0, 0), OtherKey)

\* Bodies that pass Tokens.Validate with every token string as refresh_token,
\* and bodies that fail it around a refresh token that would be accepted.
RefreshTokenRequests ==
    { AuthRequest("RefreshToken", "route", Body(FALSE, "", "", Garbage, t, "refresh_token"),
                  NoHeader) : t \in TokenInputs }
        \cup { AuthRequest("RefreshToken", "route", Body(FALSE, "", "", a, t, g), NoHeader) :
                   a \in {EmptyString, Garbage, UselessAccessToken},
                   t \in {EmptyString, AcceptableRefreshToken},
                   g \in GrantTypeInputs }
        \cup { AuthRequest("RefreshToken", "route", [NoBody EXCEPT !.malformed = TRUE], NoHeader) }

\* GET /api/v1/auth/me through JwtValidator with a bearer header of every
\* token string, with no header, with a handed-out token under another
\* prefix or none, and its handler on a context no middleware has touched.
GetAuthenticatedUserRequests ==
    { AuthRequest("GetAuthenticatedUser", "route", NoBody, h) :
          h \in {NoHeader} \cup { Header("Bearer ", t) : t \in TokenInputs }
                  \cup { Header(p, t) : p \in {"Basic ", ""}, t \in IssuedStrings } }
        \cup { AuthRequest("GetAuthenticatedUser", "handler", NoBody, NoHeader) }

\* ------------------------------------------------------------- auth actions
\* The pairs handed out stay within the bound, the pair of the waiting
\* RefreshTokens call counted.
Reserved == IF refreshing = NotRefreshing THEN 0 ELSE 1

AdmitPair(pair) == Cardinality(issued \cup {pair}) + Reserved <= MaxIssued

\* POST /api/v1/auth/login
AuthenticateHandler(req, fault) ==
    /\ req.op = "Authenticate"
    /\ fault = "none" \/ Authenticate(req.body, now, fault) /= Authenticate(req.body, now, "none")
    /\ LET result == Authenticate(req.body, now, fault)
           resp == IF req.body.malformed THEN DecodeError ELSE WriteAuthResult(result)
           pair == IssuedPair(resp.tokens, SubjectOf(resp.tokens), now, "login")
       IN  /\ auth' = Exchange(req, now, now, fault, ~req.body.malformed, NoUser, resp)
           /\ IF resp.kind = "ok"
              THEN AdmitPair(pair) /\ issued' = issued \cup {pair}
              ELSE issued' = issued
    /\ UNCHANGED <<calendarVars, now, refreshing>>

\* PUT /api/v1/auth/token, up to the answer or to the call of FindUserByUUID:
\* the body is decoded and RefreshTokens reads the clock for the expiration
\* of the refresh token.
RefreshTokenHandler(req) ==
    /\ req.op = "RefreshToken"
    /\ refreshing = NotRefreshing
    /\ LET early == RefreshTokensChecks(req.body, now)
           resp == IF req.body.malformed THEN DecodeError ELSE WriteAuthResult(early)
       IN  IF req.body.malformed \/ early /= NoAuthResult
           THEN /\ auth' = Exchange(req, now, now, "none", ~req.body.malformed, NoUser, resp)
                /\ refreshing' = refreshing
           ELSE /\ Cardinality(issued) < MaxIssued
                /\ refreshing' = Refreshing(req, now)
                /\ auth' = auth
    /\ UNCHANGED <<calendarVars, now, issued>>

\* FindUserByUUID answers or fails: RefreshTokens goes on to GenerateTokens,
\* which reads the clock again, and the handler writes the response.
RefreshTokenReply(fault) ==
    /\ refreshing /= NotRefreshing
    /\ LET req == refreshing.req
           result == RefreshTokens(req.body, refreshing.at, now, fault)
           resp == WriteAuthResult(result)
           pair == IssuedPair(resp.tokens, SubjectOf(resp.tokens), now, "refresh")
       IN  /\ auth' = Exchange(req, refreshing.at, now, fault, TRUE, NoUser, resp)
           /\ issued' = IF resp.kind = "ok" THEN issued \cup {pair} ELSE issued
    /\ refreshing' = NotRefreshing
    /\ UNCHANGED <<calendarVars, now>>

\* GET /api/v1/auth/me: JwtValidator, then the handler GetAuthenticatedUser.
GetAuthenticatedUserHandler(req, fault) ==
    /\ req.op = "GetAuthenticatedUser"
    /\ fault = "none" \/ ValidateToken(req.header, now, fault) /= ValidateToken(req.header, now, "none")
    /\ LET gate == IF req.entry = "route"
                   THEN JwtValidator(req.header, now, fault)
                   ELSE [next |-> TRUE, ctxUser |-> NoUser, result |-> NoAuthResult]
           resp == IF gate.next
                   THEN WriteAuthResult(GetAuthenticatedUser(gate.ctxUser))
                   ELSE IF gate.result.kind = "panic"
                        THEN WriteAuthResult(gate.result)
                        ELSE gate.result
       IN  auth' = Exchange(req, now, now, fault, gate.next, gate.ctxUser, resp)
    /\ UNCHANGED <<calendarVars, now, issued, refreshing>>

\* time.Now() moves on.
Tick ==
    /\ \E t \in ClockPoints : t > now /\ now' = t
    /\ UNCHANGED <<calendarVars, issued, auth, refreshing>>

\* The auth routes of Setup; any repository call may fail.
NextAuth ==
    \/ \E req \in AuthenticateRequests :
           \E fault \in {"none", "FindUserByEmail", "CheckUserPassword"} :
               AuthenticateHandler(req, fault)
    \/ \E req \in RefreshTokenRequests : RefreshTokenHandler(req)
    \/ \E fault \in {"none", "FindUserByUUID"} : RefreshTokenReply(fault)
    \/ \E req \in GetAuthenticatedUserRequests : \E fault \in {"none", "FindUserByUUID"} :
           GetAuthenticatedUserHandler(req, fault)
    \/ Tick

\* ---------------------------------------------------------- specifications
Init ==
    /\ users = SeedUsers
    /\ patients = SeedPatients
    /\ doctors = SeedDoctors
    /\ appointments = EmptyBag
    /\ blockers = EmptyBag
    /\ localOffset = UTCOffset
    /\ slots = [r \in Slots |-> IdleSlot]
    /\ now = 0
    /\ issued = {}
    /\ auth = NoExchange
    /\ refreshing = NotRefreshing
    /\ wire = NoWire

Accept(r, req) ==
    \/ AllowedRoleReject(r, req)
    \/ GetDoctorCalendarBegin(r, req)
    \/ GetAppointmentsBegin(r, req)
    \/ InsertAppointmentBegin(r, req)
    \/ InsertBlockerBegin(r, req)

Step(r) ==
    \/ ReadAppointments(r)
    \/ ReadBlockers(r)
    \/ InsertAppointmentCommit(r)
    \/ InsertBlockerCommit(r)
    \/ Reply(r)

\* Every request is answered before the next one starts.
OneAtATime == \A s \in Slots : slots[s].pc = "idle"

\* A request takes the first free slot.
FirstFree(r) == slots[r].pc = "idle" /\ \A s \in Slots : s < r => slots[s].pc /= "idle"

Next ==
    \E r \in Slots :
        \/ OneAtATime /\ FirstFree(r) /\ \E req \in Requests : Accept(r, req)
        \/ Step(r)

Spec == Init /\ [][Next]_vars

\* Requests interleave at every database round trip.
NextRace ==
    \E r \in Slots :
        \/ FirstFree(r) /\ \E req \in RaceRequests : Accept(r, req)
        \/ Step(r)

SpecRace == Init /\ [][NextRace]_vars


\* The block periods of the requests that only create blockers: dates within
\* the first hours after the zero time and dates within one hour of a day.
EdgeBlockerTimes ==
    {ZeroTime, ZeroTime + 30, ZeroTime + 90, At(0, 15, 0), At(0, 16, 10), At(0, 16, 30)}

\* The offsets of these periods: Z, +02:00 and +05:30.
EdgeBlockerZones == {UTCOffset * MinutesPerHour, 2 * MinutesPerHour, 330}

EdgeBlockerRequests ==
    { InZone(Request("InsertBlocker", c[1], c[2], NoUUID, ZeroTime, 0, s, t), z[1], z[2]) :
          c \in Callers, s \in EdgeBlockerTimes, t \in EdgeBlockerTimes,
          z \in EdgeBlockerZones \X EdgeBlockerZones }

\* POST /api/v1/calendar/blockers alone, one request at a time.
NextBlockers ==
    \E r \in Slots :
        \/ /\ OneAtATime /\ FirstFree(r)
           /\ \E req \in EdgeBlockerRequests :
                  AllowedRoleReject(r, req) \/ InsertBlockerBegin(r, req)
        \/ InsertBlockerCommit(r)
        \/ Reply(r)

SpecBlockers == Init /\ [][NextBlockers]_vars

\* The requests of the specification with failures: the seeded patient and
\* doctor through the routes and in direct calls of the service, on the
\* seeded doctor's day 0 and an unknown doctor, and each route and each
\* handler reached with no user in the context.
FaultRequests ==
    { q \in Requests :
        /\ q.user \in {1, 2}
        /\ q.doctorUUID \in {"D1", "DX", NoUUID}
        /\ q.op /= "InsertBlocker" => q.date = At(0, 0, 0)
        /\ q.hour \in {0, 8, 17}
        /\ q.op = "InsertBlocker" =>
               /\ q.start_date \in {ZeroTime, At(0, 15, 0)} /\ q.end_date = At(0, 16, 30)
               /\ q.start_zone = q.end_zone }
      \cup
    { Request(op, e, NoUser, "D1", At(0, 0, 0), 17, At(0, 15, 0), At(0, 16, 30)) :
          op \in {"GetDoctorCalendar", "InsertAppointment", "GetAppointments", "InsertBlocker"},
          e \in {"handler", "gate"} }

\* One request at a time, each repository call free to fail.
NextFaults ==
    \E r \in Slots :
        \/ /\ OneAtATime /\ FirstFree(r)
           /\ \E req \in FaultRequests :
                  \/ NoUserAttached(r, req)
                  \/ req.entry /= "handler" /\ Accept(r, req)
                  \/ LookupFails(r, req)
        \/ Step(r)
        \/ ListAppointmentsFails(r)
        \/ ListBlockersFails(r)
        \/ InsertFails(r)

SpecFaults == Init /\ [][NextFaults]_vars

\* The requests of the specification of all routes: the seeded patient's
\* listing and bookings (hour 0 fails the validation), the seeded doctor's
\* listing and blocker, and the doctor's request on the patients' route.
FrameRequests ==
    { q \in RaceRequests :
          \/ q.user = 1 /\ q.op \in {"GetDoctorCalendar", "InsertAppointment"}
          \/ q.user = 2 /\ q.op \in {"GetAppointments", "InsertBlocker", "GetDoctorCalendar"} }

\* The seeded patient logs in; /api/v1/auth/me is asked with the access
\* token handed out.
FrameAuthenticateRequests ==
    { q \in AuthenticateRequests :
          q.body.email = "patient@hospital.com" /\ q.body.password = "pw1" }
FrameGetAuthenticatedUserRequests ==
    { AuthRequest("GetAuthenticatedUser", "route", NoBody, Header("Bearer ", t)) :
          t \in { p.tokens.access_token : p \in issued } }

\* All routes, interleaved at every database round trip, each repository
\* call of the calendar free to fail.
NextFrame ==
    \/ \E r \in Slots :
           \/ /\ FirstFree(r)
              /\ \E req \in FrameRequests : Accept(r, req) \/ LookupFails(r, req)
           \/ Step(r)
           \/ ListAppointmentsFails(r)
           \/ ListBlockersFails(r)
           \/ InsertFails(r)
    \/ \E req \in FrameAuthenticateRequests : AuthenticateHandler(req, "none")
    \/ \E req \in FrameGetAuthenticatedUserRequests : GetAuthenticatedUserHandler(req, "none")

SpecFrame == Init /\ [][NextFrame]_vars

\* Zone offsets, in hours, of the process: time.Local is taken from TZ or
\* /etc/localtime when the process starts.
LocalOffsets == {0 - 5, 0, 1}

InitZones ==
    /\ users = SeedUsers
    /\ patients = SeedPatients
    /\ doctors = SeedDoctors
    /\ appointments = EmptyBag
    /\ blockers = EmptyBag
    /\ localOffset \in LocalOffsets
    /\ slots = [r \in Slots |-> IdleSlot]
    /\ now = 0
    /\ issued = {}
    /\ auth = NoExchange
    /\ refreshing = NotRefreshing
    /\ wire = NoWire

\* The seeded patient books hours of the seeded doctor's day 0; the patient
\* and the doctor list that day.
ZoneRequests ==
    { Request("InsertAppointment", "route", 1, "D1", At(0, 0, 0), h, ZeroTime, ZeroTime) :
          h \in {10, 11, 17} }
      \cup { Request("GetDoctorCalendar", "route", 1, "D1", At(0, 0, 0), 0, ZeroTime, ZeroTime),
             Request("GetAppointments", "route", 2, NoUUID, At(0, 0, 0), 0, ZeroTime, ZeroTime) }

\* One request at a time, in a process of any zone.
NextZones ==
    \E r \in Slots :
        \/ /\ OneAtATime /\ FirstFree(r)
           /\ \E req \in ZoneRequests :
                  \/ GetDoctorCalendarBegin(r, req)
                  \/ GetAppointmentsBegin(r, req)
                  \/ InsertAppointmentBegin(r, req)
        \/ ReadAppointments(r)
        \/ ReadBlockers(r)
        \/ InsertAppointmentCommit(r)
        \/ Reply(r)

SpecZones == InitZones /\ [][NextZones]_vars

\* The seeded doctor blocks periods within a day and over one and two
\* nights; the doctor and the seeded patient list the days around them.
FetchRequests ==
    { Request("InsertBlocker", "route", 2, NoUUID, ZeroTime, 0, s, t) :
          s \in {At(0, 15, 0), At(1, 12, 30)},
          t \in {At(0, 16, 30), At(1, 12, 30), At(2, 10, 0)} }
      \cup { Request("GetAppointments", "route", 2, NoUUID, At(d, 0, 0), 0, ZeroTime, ZeroTime) :
                 d \in 0..3 }
      \cup { Request("GetDoctorCalendar", "route", 1, "D1", At(d, 0, 0), 0, ZeroTime, ZeroTime) :
                 d \in 0..3 }

\* Blockers and the two listings, one request at a time.
NextFetch ==
    \E r \in Slots :
        \/ /\ OneAtATime /\ FirstFree(r)
           /\ \E req \in FetchRequests :
                  \/ GetDoctorCalendarBegin(r, req)
                  \/ GetAppointmentsBegin(r, req)
                  \/ InsertBlockerBegin(r, req)
        \/ ReadAppointments(r)
        \/ ReadBlockers(r)
        \/ InsertBlockerCommit(r)
        \/ Reply(r)

SpecFetch == Init /\ [][NextFetch]_vars

\* AllowedRole answers before the handler parses anything; the handler
\* that parsed everything calls the service.
ParseSucceeds(r, q) ==
    /\ AllowedRole(q.user, RouteRole(q.op)) = NoResp => ParseError(q) = NoResp
    /\ Accept(r, ServiceRequest(q))

\* The parameters of /2021/08/10 and of the seeded doctor, and the ones
\* that differ from them in one place.
PathInputs ==
    LET year == <<"2", "0", "2", "1">>
        month == <<"0", "8">>
        day == <<"1", "0">>
    IN  { <<y, month, day, "D1", FALSE>> :
              y \in {year, <<"2", "0", "2", "1", "0">>, <<"2", "o", "2", "1">>,
                     <<"0", "0", "0", "1">>} }
        \cup { <<year, m, day, "D1", FALSE>> :
                   m \in {<<"8">>, <<"1", "3">>, <<"0", "0", "8">>, <<"-", "8">>} }
        \cup { <<year, month, d, "D1", FALSE>> :
                   d \in {<<"1", "1">>, <<"3", "2">>, <<"1", "x">>} }
        \cup { <<year, month, day, u, b>> :
                   u \in {"DX", "not-a-uuid", ZeroUUID}, b \in BOOLEAN }
        \cup { <<year, month, day, "D1", TRUE>>, <<year, <<"1", "3">>, day, "not-a-uuid", TRUE>> }

\* The seeded patient's and doctor's requests on the four routes.
PathRequests ==
    { PathRequest(op, u, i[1], i[2], i[3], i[4], i[5], 17, At(0, 15, 0), At(0, 16, 30)) :
          op \in {"GetDoctorCalendar", "InsertAppointment", "GetAppointments", "InsertBlocker"},
          u \in {1, 2}, i \in PathInputs }

\* The four routes from the path and the body on, one request at a time.
NextParse ==
    \/ /\ OneAtATime
       /\ \E q \in PathRequests :
              \/ ParseFails(q)
              \/ \E fault \in BOOLEAN : GetDoctorCalendarGoesOn(q, fault)
              \/ \E r \in Slots : FirstFree(r) /\ ParseSucceeds(r, q)
    \/ \E r \in Slots : Step(r)

SpecParse == Init /\ [][NextParse]_vars

SpecAuth == Init /\ [][NextAuth]_vars

\* ------------------------------------------------------------------ claims
WorkHours == startWorkHour..endWorkHour

\* The reference timestamp of hour h of the day that starts at date.
HourOf(date, h) == date + (h * MinutesPerHour)

\* The stored appointments of a doctor at an instant, copies counted.
StoredAt(doctorID, t) ==
    LET hit == { a \in BagToSet(appointments) : a.doctor_id = doctorID /\ a.date = t }
    IN  BagCardinality([a \in hit |-> CopiesIn(a, appointments)])

\* Some stored blocker of the doctor covers the instant, both ends included.
BlockedAt(doctorID, t) ==
    \E b \in BagToSet(blockers) :
        b.doctor_id = doctorID /\ b.start_date <= t /\ t <= b.end_date

SlotNotAvailable == APIError(StatusBadRequest, ErrSlotNotAvailable)

\* The request of slot r is a booking that got past validation and lookups.
Booking(r) ==
    /\ slots[r].req.op = "InsertAppointment"
    /\ slots[r].patient /= NoPatient
    /\ slots[r].doctor /= NoDoctor

\* The request of slot r is answered with a listing.
Listed(r, op) ==
    /\ slots[r].pc = "done"
    /\ slots[r].req.op = op
    /\ slots[r].resp.status = StatusOK

HoursOf(entries) == [i \in DOMAIN entries |-> entries[i].hour]

NoDoubleBooking ==
    \A a \in BagToSet(appointments) : StoredAt(a.doctor_id, a.date) = 1

\* C1: with requests served one at a time, a booking for a (doctor, date,
\* hour) that already holds a stored appointment changes no table and is
\* answered 400 "chosen slot is not available"; so at most one appointment
\* is ever stored per (doctor, date, hour).
C1_SequentialBookingIsExclusive ==
    [][ /\ \A r \in Slots :
               ( /\ Booking(r)
                 /\ slots[r].pc /= "done"
                 /\ StoredAt(slots[r].doctor, HourOf(slots[r].req.date, slots[r].req.hour)) > 0 )
               => /\ appointments' = appointments
                  /\ slots'[r].pc /= "insert"
                  /\ slots'[r].pc = "done" => slots'[r].resp = SlotNotAvailable
        /\ NoDoubleBooking' ]_vars

C1_Witness ==
    \E r \in Slots :
        /\ Booking(r)
        /\ slots[r].pc = "done"
        /\ slots[r].resp = SlotNotAvailable
        /\ blockers = EmptyBag
        /\ StoredAt(slots[r].doctor, HourOf(slots[r].req.date, slots[r].req.hour)) = 1
        /\ BagCardinality(appointments) = 1

\* C2: the availability check and the insert are separate steps: a booking
\* that is about to insert found its hour free of appointments and blockers
\* in the rows it read, whatever the tables hold by now, and the insert
\* itself checks nothing; two interleaved bookings of one (doctor, date,
\* hour) both succeed and leave two stored appointments.
C2_InsertFollowsStaleCheck ==
    \A r \in Slots :
        (slots[r].req.op = "InsertAppointment" /\ slots[r].pc = "insert")
        => /\ ~hasAppointment(slots[r].appts, slots[r].req.date, slots[r].req.hour)
           /\ ~hourIsBlocked(slots[r].blks, slots[r].req.date, slots[r].req.hour)
           /\ ENABLED InsertAppointmentCommit(r)

C2_Witness ==
    \E r1, r2 \in Slots :
        /\ r1 /= r2
        /\ Booking(r1) /\ Booking(r2)
        /\ slots[r1].pc = "done" /\ slots[r2].pc = "done"
        /\ slots[r1].resp.status = StatusCreated /\ slots[r2].resp.status = StatusCreated
        /\ slots[r1].doctor = slots[r2].doctor
        /\ slots[r1].req.date = slots[r2].req.date
        /\ slots[r1].req.hour = slots[r2].req.hour
        /\ StoredAt(slots[r1].doctor, HourOf(slots[r1].req.date, slots[r1].req.hour)) = 2

\* C3: an hour of 9..17 whose reference timestamp lies within a stored
\* blocker of the doctor, ends included, is never reported available:
\* GetAppointments reports it with available = FALSE, GetDoctorCalendar
\* omits it, and a booking for it is answered "chosen slot is not available"
\* and stores nothing, whether or not an appointment is stored at that hour.
C3_BlockedHourNeverAvailable ==
    \A r \in Slots : \A h \in WorkHours :
        LET s == slots[r]
        IN  BlockedAt(s.doctor, HourOf(s.req.date, h)) =>
                /\ Listed(r, "GetAppointments") =>
                       /\ \E i \in DOMAIN s.resp.entries : s.resp.entries[i].hour = h
                       /\ \A i \in DOMAIN s.resp.entries :
                              s.resp.entries[i].hour = h => ~s.resp.entries[i].available
                /\ Listed(r, "GetDoctorCalendar") =>
                       \A i \in DOMAIN s.resp.entries : s.resp.entries[i].hour /= h
                /\ (Booking(r) /\ s.req.hour = h) =>
                       /\ s.pc /= "insert"
                       /\ s.pc = "done" => s.resp = SlotNotAvailable

C3_Witness ==
    \E r1 \in Slots :
        /\ Listed(r1, "GetAppointments")
        /\ \E h \in WorkHours :
               /\ BlockedAt(slots[r1].doctor, HourOf(slots[r1].req.date, h))
               /\ StoredAt(slots[r1].doctor, HourOf(slots[r1].req.date, h)) = 1

\* C4: an hour of 9..17 that is not blocked and holds a stored appointment
\* of the doctor is reported by GetAppointments with available = FALSE and
\* with the patient that appointment names.
C4_BookedHourCarriesPatient ==
    \A r \in Slots : \A h \in WorkHours : \A a \in BagToSet(appointments) :
        LET s == slots[r]
        IN  ( /\ Listed(r, "GetAppointments")
              /\ ~BlockedAt(s.doctor, HourOf(s.req.date, h))
              /\ a.doctor_id = s.doctor
              /\ a.date = HourOf(s.req.date, h) )
            => /\ \E i \in DOMAIN s.resp.entries : s.resp.entries[i].hour = h
               /\ \A i \in DOMAIN s.resp.entries :
                      s.resp.entries[i].hour = h =>
                          /\ ~s.resp.entries[i].available
                          /\ s.resp.entries[i].patient = a.patient_id

C4_Witness ==
    \E r \in Slots :
        /\ Listed(r, "GetAppointments")
        /\ \E a \in BagToSet(appointments) :
               /\ a.doctor_id = slots[r].doctor
               /\ a.patient_id = 1
               /\ \E h \in WorkHours :
                      /\ a.date = HourOf(slots[r].req.date, h)
                      /\ ~BlockedAt(slots[r].doctor, a.date)

\* C5: every entry of GetDoctorCalendar has available = TRUE and no patient,
\* the hours are strictly ascending within 9..17, and an hour is present
\* exactly when it is neither blocked nor booked.
C5_DoctorCalendarListsOpenHours ==
    \A r \in Slots :
        LET s == slots[r]
            e == s.resp.entries
        IN  Listed(r, "GetDoctorCalendar") =>
                /\ \A i \in DOMAIN e :
                       e[i].available /\ e[i].patient = NoPatient /\ e[i].hour \in WorkHours
                /\ \A i, j \in DOMAIN e : i < j => e[i].hour < e[j].hour
                /\ \A h \in WorkHours :
                       (\E i \in DOMAIN e : e[i].hour = h)
                           <=> /\ ~BlockedAt(s.doctor, HourOf(s.req.date, h))
                               /\ StoredAt(s.doctor, HourOf(s.req.date, h)) = 0

C5_Witness ==
    \E r \in Slots :
        /\ Listed(r, "GetDoctorCalendar")
        /\ \E h1, h2 \in WorkHours :
               /\ BlockedAt(slots[r].doctor, HourOf(slots[r].req.date, h1))
               /\ ~BlockedAt(slots[r].doctor, HourOf(slots[r].req.date, h2))
               /\ StoredAt(slots[r].doctor, HourOf(slots[r].req.date, h2)) = 1
        /\ Len(slots[r].resp.entries) > 0

\* C6: for a requester that resolves to a doctor, GetAppointments answers
\* with exactly nine entries whose hours are 9, 10, ..., 17 in that order,
\* whatever blockers and appointments are stored.
C6_AppointmentsListNineHours ==
    \A r \in Slots :
        LET s == slots[r]
        IN  ( /\ s.pc = "done"
              /\ s.req.op = "GetAppointments"
              /\ s.ran
              /\ FindDoctorByUserID(s.req.user) /= NoDoctor )
            => /\ s.resp.status = StatusOK
               /\ HoursOf(s.resp.entries) = [i \in 1..9 |-> 8 + i]

C6_Witness ==
    \E r \in Slots :
        /\ Listed(r, "GetAppointments")
        /\ BagCardinality(appointments) > 0
        /\ BagCardinality(blockers) > 0
        /\ Len(slots[r].resp.entries) = 9

\* C7: a booking with an hour outside 9..17 is answered with the validation
\* error on "hour" whenever InsertAppointment runs, whoever asks, whatever
\* doctor is named and whatever is stored, and it never reaches the insert;
\* every stored appointment lies on a whole hour of 9..17.
C7_HourOutsideWorkingHoursRejected ==
    /\ \A r \in Slots :
           LET s == slots[r]
           IN  ( /\ s.req.op = "InsertAppointment"
                 /\ s.ran
                 /\ s.req.hour \notin WorkHours )
               => /\ s.pc = "done"
                  /\ s.resp = ValidationError("hour", "out of working hours")
    /\ \A a \in BagToSet(appointments) :
           \E h \in WorkHours : a.date = HourOf(date_trunc_day(a.date), h)

C7_Witness ==
    \E r \in Slots :
        /\ slots[r].req.op = "InsertAppointment"
        /\ slots[r].req.hour = 18
        /\ users[slots[r].req.user] = DoctorRole
        /\ slots[r].req.doctorUUID = "DX"
        /\ slots[r].resp = ValidationError("hour", "out of working hours")
        /\ BagCardinality(appointments) > 0

\* C8: InsertBlocker with end_date before start_date is over in its first
\* step, before the insert, and is never answered 201; when the requester
\* resolves to a doctor the answer is the validation error on "end_date"
\* with status 400.
C8_InvertedPeriodRejected ==
    /\ \A r \in Slots :
           LET s == slots[r]
           IN  ( /\ s.req.op = "InsertBlocker"
                 /\ s.req.end_date < s.req.start_date )
               => /\ s.pc = "done"
                  /\ s.resp.status /= StatusCreated
                  /\ (s.ran /\ FindDoctorByUserID(s.req.user) /= NoDoctor) =>
                         /\ s.resp.kind = "ValidationError"
                         /\ s.resp.field = "end_date"
                         /\ s.resp.status = StatusBadRequest

C8_Witness ==
    \E r \in Slots :
        /\ slots[r].req.op = "InsertBlocker"
        /\ slots[r].req.start_date = At(0, 16, 30)
        /\ slots[r].req.end_date = At(0, 15, 0)
        /\ slots[r].resp = ValidationError("end_date", "invalid period")

\* The tables of the scenario: doctor 1 with one blocker 15:00 to 16:00 and
\* one appointment at 10:00 on 2021-08-10.
Scenario(patientID) ==
    /\ blockers = SetToBag({ [doctor_id |-> 1, start_date |-> At(0, 15, 0),
                              end_date |-> At(0, 16, 0)] })
    /\ appointments = SetToBag({ [doctor_id |-> 1, patient_id |-> patientID,
                                  date |-> At(0, 10, 0)] })

\* C9: in the scenario GetAppointments lists 9..17 with 10 booked by the
\* patient, 15 and 16 unavailable without patient and the other hours
\* available; GetDoctorCalendar lists exactly 9, 11, 12, 13, 14, 17.
C9_ScenarioSchedules ==
    \A r \in Slots : \A p \in { pt.id : pt \in SeedPatients } :
        LET s == slots[r]
        IN  (Scenario(p) /\ s.doctor = 1 /\ s.req.date = At(0, 0, 0)) =>
                /\ Listed(r, "GetAppointments") =>
                       s.resp.entries =
                           << Entry(9, TRUE, NoPatient), Entry(10, FALSE, p),
                              Entry(11, TRUE, NoPatient), Entry(12, TRUE, NoPatient),
                              Entry(13, TRUE, NoPatient), Entry(14, TRUE, NoPatient),
                              Entry(15, FALSE, NoPatient), Entry(16, FALSE, NoPatient),
                              Entry(17, TRUE, NoPatient) >>
                /\ Listed(r, "GetDoctorCalendar") =>
                       s.resp.entries =
                           << Entry(9, TRUE, NoPatient), Entry(11, TRUE, NoPatient),
                              Entry(12, TRUE, NoPatient), Entry(13, TRUE, NoPatient),
                              Entry(14, TRUE, NoPatient), Entry(17, TRUE, NoPatient) >>

C9_Witness ==
    \E r \in Slots :
        /\ Scenario(1)
        /\ slots[r].doctor = 1
        /\ slots[r].req.date = At(0, 0, 0)
        /\ Listed(r, "GetAppointments")

\* C10: through the routes, a request of a user whose role is the one the
\* route is gated on reaches the handler; a request of a user with another
\* role is answered 403 by AllowedRole and the handler does not run, so
\* GetAppointments and InsertBlocker never run for a patient-role user nor
\* GetDoctorCalendar and InsertAppointment for a doctor-role user.
C10_RoleGate ==
    \A r \in Slots :
        LET s == slots[r]
            role == users[s.req.user]
        IN  (s.pc /= "idle" /\ s.req.entry = "route") =>
                /\ role = RouteRole(s.req.op) => s.ran
                /\ role /= RouteRole(s.req.op) =>
                       ~s.ran /\ s.pc = "done" /\ s.resp = Denied(StatusForbidden)
                /\ (s.ran /\ s.req.op \in {"GetAppointments", "InsertBlocker"}) =>
                       role /= PatientRole
                /\ (s.ran /\ s.req.op \in {"GetDoctorCalendar", "InsertAppointment"}) =>
                       role /= DoctorRole

C10_Witness ==
    \E r \in Slots :
        /\ slots[r].req.entry = "route"
        /\ slots[r].req.op = "InsertAppointment"
        /\ users[slots[r].req.user] = DoctorRole
        /\ FindPatientByUserID(slots[r].req.user) = NoPatient
        /\ slots[r].resp = Denied(StatusForbidden)

\* The requester of slot sl owns a Patient, a Doctor profile.
HasPatientProfile(sl) == \E p \in patients : p.user_id = sl.req.user
HasDoctorProfile(sl) == \E d \in doctors : d.user_id = sl.req.user

\* The answers to a requester without the profile the operation needs.
C12_Refusals ==
    \A r \in Slots :
        LET s == slots[r]
        IN  /\ (s.ran /\ s.req.op = "InsertAppointment" /\ ~HasPatientProfile(s)) =>
                   /\ s.pc = "done"
                   /\ s.resp.status /= StatusCreated
                   /\ AppointmentRequestValidate(s.req) = NoResp =>
                          s.resp = APIError(StatusForbidden, ErrOnlyPatientCanCreateAppointment)
            /\ (s.ran /\ s.req.op = "InsertBlocker" /\ ~HasDoctorProfile(s)) =>
                   /\ s.pc = "done"
                   /\ s.resp = APIError(StatusForbidden, ErrOnlyDoctorCanCreateBlocker)
            /\ (s.ran /\ s.req.op = "GetAppointments" /\ ~HasDoctorProfile(s)) =>
                   /\ s.pc = "done"
                   /\ s.resp = APIError(StatusForbidden, ErrOnlyDoctorCanCheckItsAppointments)

\* A step that changes a table adds one row that names the requester's own
\* profile, and for an appointment the doctor of the request's doctorUUID.
C12_Stores ==
    /\ appointments' /= appointments =>
           \E r \in Slots : \E p \in patients : \E d \in doctors :
               \E row \in BagToSet(appointments') :
                   /\ slots[r].req.op = "InsertAppointment"
                   /\ slots[r].pc = "insert" /\ slots'[r].pc = "done"
                   /\ p.user_id = slots[r].req.user
                   /\ d.uuid = slots[r].req.doctorUUID
                   /\ row.patient_id = p.id /\ row.doctor_id = d.id
                   /\ appointments' = appointments (+) SetToBag({row})
    /\ blockers' /= blockers =>
           \E r \in Slots : \E d \in doctors : \E row \in BagToSet(blockers') :
               /\ slots[r].req.op = "InsertBlocker"
               /\ slots[r].pc = "insert" /\ slots'[r].pc = "done"
               /\ d.user_id = slots[r].req.user
               /\ row.doctor_id = d.id
               /\ blockers' = blockers (+) SetToBag({row})

\* C12: every appointment stored by InsertAppointment names the Patient
\* profile owned by the requesting user and the Doctor of the request's
\* doctorUUID, every blocker stored by InsertBlocker names the Doctor profile
\* owned by the requesting user, and a requester without the needed profile
\* is answered 403 and stores nothing.
C12_RowsBelongToRequester == []C12_Refusals /\ [][C12_Stores]_vars

C12_Witness ==
    /\ \E r \in Slots :
           /\ slots[r].req.op = "InsertAppointment"
           /\ slots[r].req.user = 1
           /\ slots[r].req.doctorUUID = "D1"
           /\ slots[r].pc = "done"
           /\ slots[r].resp.status = StatusCreated
    /\ \E a \in BagToSet(appointments) : a.patient_id = 1 /\ a.doctor_id = 1
    /\ \E b \in BagToSet(blockers) : b.doctor_id = 1

\* C13: GetDoctorCalendar and InsertAppointment for a doctorUUID that names
\* no stored Doctor are answered 404 "doctor not found", while for a stored
\* doctor without blockers and appointments GetDoctorCalendar answers 200
\* with the nine hours 9..17, all available.
C13_UnknownDoctorIsNotFound ==
    \A r \in Slots :
        LET s == slots[r]
            known == \E d \in doctors : d.uuid = s.req.doctorUUID
            empty == /\ \A a \in BagToSet(appointments) : a.doctor_id /= s.doctor
                     /\ \A b \in BagToSet(blockers) : b.doctor_id /= s.doctor
        IN  /\ (s.ran /\ s.req.op = "GetDoctorCalendar" /\ ~known) =>
                   /\ s.pc = "done"
                   /\ s.resp = APIError(StatusNotFound, ErrDoctorNotFound)
            /\ (s.ran /\ s.req.op = "InsertAppointment" /\ ~known) =>
                   /\ s.pc = "done"
                   /\ s.resp.status /= StatusCreated
                   /\ (AppointmentRequestValidate(s.req) = NoResp /\ HasPatientProfile(s)) =>
                          s.resp = APIError(StatusNotFound, ErrDoctorNotFound)
            /\ (s.ran /\ s.pc = "done" /\ s.req.op = "GetDoctorCalendar" /\ known) =>
                   /\ s.resp.status = StatusOK
                   /\ empty => s.resp.entries = [i \in 1..9 |-> Entry(8 + i, TRUE, NoPatient)]

C13_Witness ==
    \E r \in Slots :
        /\ slots[r].req.op = "GetDoctorCalendar"
        /\ slots[r].req.doctorUUID = "DX"
        /\ slots[r].resp = APIError(StatusNotFound, ErrDoctorNotFound)
        /\ \E a \in BagToSet(appointments) : a.doctor_id = 1

WholeHour(t) == Truncate(t, MinutesPerHour) = t

\* C14: every stored blocker has non-zero start_date and end_date, both on a
\* whole hour, and end_date not before start_date.
C14_StoredBlockerDatesNonZero ==
    \A b \in BagToSet(blockers) :
        /\ ~IsZero(b.start_date) /\ ~IsZero(b.end_date)
        /\ WholeHour(b.start_date) /\ WholeHour(b.end_date)
        /\ ~(b.end_date < b.start_date)

\* ------------------------------------------------------------- auth claims
\* The 401 JwtValidator writes: a bare status.
Bare401 == [NoAuthResult EXCEPT !.status = StatusUnauthorized, !.kind = "middleware"]

\* The served request went through JwtValidator.
Validated == auth.req.op = "GetAuthenticatedUser" /\ auth.req.entry = "route"

\* A stored user has that UUID, that email.
StoredUUID(uuid) == \E u \in DOMAIN users : UserUUID[u] = uuid
StoredEmail(email) == \E u \in DOMAIN users : UserEmail[u] = email

\* C11: a token whose expiration is not strictly after the time of the
\* request is refused by ValidateToken, also when the server signed it and
\* its subject is a stored user: the request is answered 401 with an empty
\* body and the next handler does not run.
C11_ExpiredTokenIsUnauthorized ==
    LET token == auth.req.header.token
    IN  (Validated /\ token.form = "jws" /\ ~(auth.at < token.claims.exp)) =>
            /\ ~auth.ran
            /\ auth.resp = Bare401

C11_Witness ==
    LET token == auth.req.header.token
    IN  /\ Validated
        /\ auth.req.header.prefix = "Bearer "
        /\ token \in IssuedStrings
        /\ token.key = ServerKey
        /\ StoredUUID(token.claims.sub)
        /\ auth.fault = "none"
        /\ token.claims.exp = auth.at
        /\ auth.resp = Bare401

\* The pair GenerateTokens is to hand out to user u at time t.
PairOf(u, t) ==
    Tokens(SignToken(Claims(UserUUID[u], users[u], "access", t, t + 5), ServerKey),
           SignToken(Claims(UserUUID[u], users[u], "refresh", t, t + (24 * 60)), ServerKey))

\* C15: RefreshTokens answers a ValidationError when access_token,
\* refresh_token or grant_type is empty or grant_type is not
\* "refresh_token"; otherwise Unauthorized when the refresh token does not
\* parse, its expiration is not in the future or its subject is no stored
\* user; otherwise a new pair for that user (no repository call failing).
C15_RefreshTokensOutcomes ==
    LET b == auth.req.body
        token == b.refresh_token
        invalid == \/ b.access_token = EmptyString
                   \/ b.refresh_token = EmptyString
                   \/ b.grant_type /= "refresh_token"
        refused == \/ token.form /= "jws"
                   \/ ~(auth.at < token.claims.exp)
                   \/ ~StoredUUID(token.claims.sub)
    IN  (auth.req.op = "RefreshToken" /\ ~b.malformed /\ auth.fault = "none") =>
            IF invalid
            THEN auth.resp.kind = "ValidationError" /\ auth.resp.status = StatusBadRequest
            ELSE IF refused
            THEN auth.resp.kind = "UnauthorizedError" /\ auth.resp.status = StatusUnauthorized
            ELSE /\ auth.resp.kind = "ok"
                 /\ auth.resp.tokens =
                        PairOf(CHOOSE u \in DOMAIN users : UserUUID[u] = token.claims.sub,
                               auth.doneAt)

\* C16: JwtValidator answers 401 and does not call the next handler when
\* the header is missing, has no "Bearer " prefix or ValidateToken fails
\* (signature, expiration, unknown subject, failed user lookup); otherwise
\* the next handler runs with the token's user attached; and
\* GetAuthenticatedUser fails with Unauthorized exactly when no user is attached.
C16_JwtValidatorGate ==
    LET h == auth.req.header
        token == h.token
        accepted == /\ h.prefix = "Bearer "
                    /\ token.form = "jws" /\ token.key = ServerKey
                    /\ auth.at < token.claims.exp
                    /\ StoredUUID(token.claims.sub)
                    /\ auth.fault = "none"
    IN  /\ (Validated /\ ~accepted) => ~auth.ran /\ auth.resp = Bare401
        /\ (Validated /\ accepted) =>
               /\ auth.ran
               /\ UserUUID[auth.ctxUser] = token.claims.sub
               /\ auth.resp.status = StatusOK /\ auth.resp.user = auth.ctxUser
        /\ (auth.req.op = "GetAuthenticatedUser" /\ auth.ran) =>
               /\ auth.ctxUser = NoUser =>
                      auth.resp.kind = "UnauthorizedError" /\ auth.resp.status = StatusUnauthorized
               /\ auth.ctxUser /= NoUser => auth.resp.kind = "ok"

C16_Witness ==
    /\ Validated
    /\ auth.req.header.prefix = "Bearer "
    /\ auth.req.header.token \in IssuedStrings
    /\ auth.at < auth.req.header.token.claims.exp
    /\ auth.fault = "FindUserByUUID"
    /\ ~auth.ran
    /\ auth.resp = Bare401

\* C17: Authenticate answers a ValidationError (400) when email or password
\* is empty, whatever the user table would answer; Unauthorized (401) when
\* no user has the email or the password is not the one the stored hash was
\* made of; and hands out a pair only to the user of the email, with that
\* user's UUID as subject and that user's role (no repository call failing).
C17_AuthenticateOutcomes ==
    LET b == auth.req.body
        blank == b.email = "" \/ b.password = ""
        match == \E u \in DOMAIN users :
                     UserEmail[u] = b.email /\ UserPlainPassword[u] = b.password
    IN  (auth.req.op = "Authenticate" /\ ~b.malformed) =>
            /\ blank =>
                   /\ auth.resp.kind = "ValidationError"
                   /\ auth.resp.status = StatusBadRequest
                   /\ auth.fault = "none"
            /\ (~blank /\ ~match /\ auth.fault = "none") =>
                   auth.resp.kind = "UnauthorizedError" /\ auth.resp.status = StatusUnauthorized
            /\ (~blank /\ match /\ auth.fault = "none") => auth.resp.kind = "ok"
            /\ auth.resp.kind = "ok" =>
                   /\ ~blank /\ match
                   /\ \A t \in {auth.resp.tokens.access_token, auth.resp.tokens.refresh_token} :
                          \E u \in DOMAIN users :
                              /\ UserEmail[u] = b.email
                              /\ t.claims.sub = UserUUID[u]
                              /\ t.claims.role = users[u]

C17_Witness ==
    /\ auth.req.op = "Authenticate"
    /\ auth.req.body.email = "doctor@hospital.com"
    /\ auth.req.body.password = "pw1"
    /\ auth.fault = "none"
    /\ auth.resp.kind = "UnauthorizedError"
    /\ auth.resp.status = StatusUnauthorized

\* C18: every pair handed out by Authenticate or RefreshTokens at time t has
\* an access token of typ "access" expiring at t + 5 minutes and a refresh
\* token of typ "refresh" expiring at t + 24 hours, both with the user's
\* UUID as subject and the user's role.
C18_IssuedPairShape ==
    /\ \A p \in issued : \E u \in DOMAIN users : p.tokens = PairOf(u, p.at)
    /\ (auth.req.op = "Authenticate" /\ auth.resp.kind = "ok") =>
           auth.resp.tokens =
               PairOf(CHOOSE u \in DOMAIN users : UserEmail[u] = auth.req.body.email,
                      auth.doneAt)
    /\ (auth.req.op = "RefreshToken" /\ auth.resp.kind = "ok") =>
           auth.resp.tokens =
               PairOf(CHOOSE u \in DOMAIN users :
                          UserUUID[u] = auth.req.body.refresh_token.claims.sub, auth.doneAt)

C18_Witness ==
    /\ auth.req.op = "RefreshToken"
    /\ auth.resp.kind = "ok"
    /\ auth.at = 4
    /\ auth.doneAt = 5
    /\ auth.req.body.refresh_token.claims.sub = "U2"
    /\ auth.resp.tokens.access_token.claims.exp = 10
    /\ auth.resp.tokens.refresh_token.claims.exp = 1445
    /\ auth.resp.tokens.access_token.claims.role = DoctorRole

\* C19: no token is stored or revoked: an access token the server handed
\* out is accepted by ValidateToken, and a refresh token it handed out by
\* RefreshTokens, at every time before its own expiration, whatever pairs
\* were handed out since (no repository call failing; users are not removed).
C19_IssuedTokensStayValid ==
    /\ ( /\ Validated
         /\ auth.fault = "none"
         /\ auth.req.header.prefix = "Bearer "
         /\ \E p \in issued : auth.req.header.token = p.tokens.access_token
         /\ auth.at < auth.req.header.token.claims.exp )
       => /\ auth.resp.status = StatusOK
          /\ UserUUID[auth.resp.user] = auth.req.header.token.claims.sub
    /\ ( /\ auth.req.op = "RefreshToken"
         /\ auth.fault = "none"
         /\ TokensValidate(auth.req.body) = NoAuthResult
         /\ ~auth.req.body.malformed
         /\ \E p \in issued : auth.req.body.refresh_token = p.tokens.refresh_token
         /\ auth.at < auth.req.body.refresh_token.claims.exp )
       => auth.resp.kind = "ok" /\ auth.resp.status = StatusOK

C19_Witness ==
    /\ Validated
    /\ auth.resp.status = StatusOK
    /\ \E p, q \in issued :
           /\ auth.req.header.token = p.tokens.access_token
           /\ q.via = "refresh"
           /\ q.user = p.user
           /\ q.at > p.at
           /\ auth.at >= q.at

\* --------------------------------------------------------- boundary claims
\* The response carries no body.
EmptyBody(resp) == resp.field = "" /\ resp.detail = "" /\ resp.entries = << >>

\* What the calendar boundary is to answer for the error of a response.
C20_StatusByKind ==
    \A r \in Slots :
        LET s == slots[r]
            resp == s.resp
        IN  (s.pc = "done" /\ s.ran) =>
                /\ s.req.entry = "handler" => resp.kind = "UnauthorizedError"
                /\ resp.kind = "UnauthorizedError" => resp.status = 401 /\ EmptyBody(resp)
                /\ resp.kind = "ValidationError" => resp.status = 400 /\ resp.field /= ""
                /\ resp.kind = "APIError" =>
                       /\ resp.detail \in {ErrOnlyDoctorCanCreateBlocker,
                                           ErrOnlyPatientCanCreateAppointment,
                                           ErrOnlyDoctorCanCheckItsAppointments}
                              => resp.status = 403
                       /\ resp.detail = ErrDoctorNotFound => resp.status = 404
                       /\ resp.detail = ErrSlotNotAvailable => resp.status = 400
                       /\ resp.status \in {400, 403, 404}
                /\ resp.kind = "error" => resp.status = 500 /\ EmptyBody(resp)
                /\ resp.kind \in {"ok", "UnauthorizedError", "ValidationError", "APIError", "error"}

\* A step that ends a request with an error stores nothing.
C20_ErrorStoresNothing ==
    \A r \in Slots :
        (slots[r].pc /= "done" /\ slots'[r].pc = "done" /\ slots'[r].resp.kind /= "ok") =>
            appointments' = appointments /\ blockers' = blockers

\* C20: the calendar boundary answers by the kind of the error alone: 401
\* with no body for an UnauthorizedError, 400 for a ValidationError, the
\* carried status for an APIError (403, 404, and 400 for an unavailable
\* slot) and 500 with no body for any other error (a failed repository
\* call, an insert that affected no row), which stores nothing.
C20_BoundaryMapsErrorKinds == []C20_StatusByKind /\ [][C20_ErrorStoresNothing]_vars

C20_Witness ==
    \E r \in Slots :
        /\ slots[r].pc = "done"
        /\ slots[r].req.op = "InsertAppointment"
        /\ slots[r].req.hour = 17
        /\ slots[r].blks /= {}
        /\ slots[r].resp.kind = "error"
        /\ slots[r].resp.status = StatusInternalServerError
        /\ EmptyBody(slots[r].resp)
        /\ appointments = EmptyBag

\* ------------------------------------------------------------ frame claims
\* Slot r ends its request with 201 in this step.
Succeeds(r, op) ==
    /\ slots[r].pc = "insert" /\ slots[r].req.op = op
    /\ slots'[r].pc = "done" /\ slots'[r].resp.status = 201

\* The tables change only by one row that a succeeding insert adds.
C21_TablesFrame ==
    /\ users' = users /\ patients' = patients /\ doctors' = doctors
    /\ appointments' /= appointments =>
           /\ \E r \in Slots : Succeeds(r, "InsertAppointment")
           /\ \E row \in BagToSet(appointments') :
                  appointments' = appointments (+) SetToBag({row})
           /\ blockers' = blockers
    /\ blockers' /= blockers =>
           /\ \E r \in Slots : Succeeds(r, "InsertBlocker")
           /\ \E row \in BagToSet(blockers') : blockers' = blockers (+) SetToBag({row})
           /\ appointments' = appointments

\* The reads, the failed requests and the auth requests change no table.
C21_ReadsAndFailuresFrame ==
    /\ auth' /= auth => appointments' = appointments /\ blockers' = blockers
    /\ \A r \in Slots :
           ( /\ slots'[r] /= slots[r]
             /\ \/ slots'[r].req.op \in {"GetDoctorCalendar", "GetAppointments"}
                \/ slots'[r].pc = "done" /\ slots'[r].resp.status /= 201 )
           => appointments' = appointments /\ blockers' = blockers

\* C21: only an InsertAppointment or InsertBlocker that succeeds changes the
\* stored appointments and blockers, by adding exactly one row and changing
\* no other; ValidateToken, GetAuthenticatedUser, GetDoctorCalendar,
\* GetAppointments and every failed insert leave users, doctors, patients,
\* appointments and blockers as they are, however the requests interleave.
C21_OnlySuccessfulInsertsWrite == [][C21_TablesFrame /\ C21_ReadsAndFailuresFrame]_vars

C21_Witness ==
    /\ auth.req.op = "GetAuthenticatedUser" /\ auth.resp.status = StatusOK
    /\ BagCardinality(appointments) = 1
    /\ BagCardinality(blockers) = 1
    /\ \E r, q \in Slots :
           /\ slots[r].pc = "done" /\ slots[r].req.op = "InsertAppointment"
           /\ slots[r].resp.status = StatusInternalServerError
           /\ slots[q].pc = "listBlockers" /\ slots[q].req.op = "GetAppointments"

\* C22: an access token expires 10 minutes after it is handed out and a
\* refresh token 24 hours after it is handed out (the lifetimes the readme gives).
C22_ReadmeLifetimes ==
    \A p \in issued :
        /\ p.tokens.access_token.claims.exp = p.at + 10
        /\ p.tokens.refresh_token.claims.exp = p.at + (24 * 60)

\* ------------------------------------------------------------ order claims
\* The period of the request fails BlockPeriod.Validate.
InvalidPeriod(q) ==
    q.start_date = ZeroTime \/ q.end_date = ZeroTime \/ q.end_date < q.start_date

\* The hour or the date of the request fails AppointmentRequest.Validate.
InvalidBooking(q) == q.hour < 9 \/ q.hour > 17 \/ q.date = ZeroTime

\* A doctor is stored under the UUID of the request.
KnownDoctor(q) == \E d \in doctors : d.uuid = q.doctorUUID

\* C23: InsertBlocker answers 403 to a requester without a Doctor profile
\* also when the period is invalid; InsertAppointment answers the
\* ValidationError of an invalid hour or date also when the requester has
\* no Patient profile or the doctor is unknown, then 403 for the missing
\* Patient profile also when the doctor is unknown, then 404 for the
\* unknown doctor, and only then 400 for the unavailable slot.
C23_CheckOrder ==
    \A r \in Slots :
        LET s == slots[r]
            q == s.req
        IN  (s.pc = "done" /\ s.ran) =>
                /\ (q.op = "InsertBlocker" /\ ~HasDoctorProfile(s)) =>
                       s.resp.status = 403 /\ s.resp.detail = ErrOnlyDoctorCanCreateBlocker
                /\ (q.op = "InsertBlocker" /\ HasDoctorProfile(s) /\ InvalidPeriod(q)) =>
                       s.resp.kind = "ValidationError"
                /\ (q.op = "InsertAppointment" /\ InvalidBooking(q)) =>
                       s.resp.kind = "ValidationError" /\ s.resp.status = 400
                /\ (q.op = "InsertAppointment" /\ ~InvalidBooking(q) /\ ~HasPatientProfile(s)) =>
                       s.resp.status = 403 /\ s.resp.detail = ErrOnlyPatientCanCreateAppointment
                /\ ( /\ q.op = "InsertAppointment" /\ ~InvalidBooking(q)
                     /\ HasPatientProfile(s) /\ ~KnownDoctor(q) ) =>
                       s.resp.status = 404 /\ s.resp.detail = ErrDoctorNotFound
                /\ (q.op = "InsertAppointment" /\ s.resp.detail = ErrSlotNotAvailable) =>
                       /\ s.resp.status = 400
                       /\ ~InvalidBooking(q) /\ HasPatientProfile(s) /\ KnownDoctor(q)

C23_Witness ==
    \E r \in Slots :
        LET s == slots[r]
        IN  /\ s.pc = "done" /\ s.ran
            /\ s.req.op = "InsertBlocker"
            /\ ~HasDoctorProfile(s)
            /\ InvalidPeriod(s.req)
            /\ s.resp.status = 403

\* ------------------------------------------------------------- zone claims
\* C24: in a process of any zone, the instant hasAppointment and
\* getAppointmentPatient compare with (date at hour in the local zone) is the
\* instant InsertAppointment stores and hourIsBlocked compares with (date at
\* hour in the zone of the date); so a stored booking of (date, hour) is
\* listed as booked at that hour: GetAppointments has the hour with
\* available = FALSE and GetDoctorCalendar leaves the hour out.
C24_SameInstantInEveryZone ==
    /\ \A d \in {At(0, 0, 0), At(1, 0, 0)} : \A h \in WorkHours :
           TimeDate(d, h, localOffset) = TimeDate(d, h, ParsedDateOffset)
    /\ \A r \in Slots : \A h \in WorkHours :
           LET s == slots[r]
               e == s.resp.entries
           IN  StoredAt(s.doctor, HourOf(s.req.date, h)) >= 1 =>
                   /\ Listed(r, "GetAppointments") =>
                          \A i \in DOMAIN e : e[i].hour = h => ~e[i].available
                   /\ Listed(r, "GetDoctorCalendar") =>
                          \A i \in DOMAIN e : e[i].hour /= h

\* ------------------------------------------------------------ fetch claims
\* The hours of a listing that the entries show as blocked: left out of
\* GetDoctorCalendar, not available and without patient in GetAppointments.
ShownBlocked(s, h) ==
    IF s.req.op = "GetDoctorCalendar"
    THEN \A i \in DOMAIN s.resp.entries : s.resp.entries[i].hour /= h
    ELSE \E i \in DOMAIN s.resp.entries :
             /\ s.resp.entries[i].hour = h
             /\ ~s.resp.entries[i].available
             /\ s.resp.entries[i].patient = NoPatient

\* C25: the blockers the query selects by day (the day of the listing
\* between the day of start_date and the day of end_date) give the same
\* blocked hours as all the blockers of the doctor with the exact test
\* start_date <= day at h:00 <= end_date, for periods within a day and
\* periods over several days.
C25_DayFetchKeepsBlockedHours ==
    \A r \in Slots : \A h \in WorkHours :
        LET s == slots[r]
        IN  (Listed(r, "GetAppointments") \/ Listed(r, "GetDoctorCalendar")) =>
                /\ hourIsBlocked(s.blks, s.req.date, h)
                       <=> BlockedAt(s.doctor, HourOf(s.req.date, h))
                /\ (appointments = EmptyBag) =>
                       (ShownBlocked(s, h) <=> BlockedAt(s.doctor, HourOf(s.req.date, h)))

C25_Witness ==
    \E r \in Slots :
        /\ Listed(r, "GetAppointments")
        /\ slots[r].req.date = At(1, 0, 0)
        /\ \E b \in slots[r].blks : b.start_date = At(0, 15, 0) /\ b.end_date = At(2, 10, 0)
        /\ \A h \in WorkHours : ShownBlocked(slots[r], h)

\* ---------------------------------------------------------- blocker claims
\* A valid InsertBlocker of a doctor is answered 201 whatever is booked, and
\* a listing shows an hour that is both booked and blocked as not available
\* and without patient.
C26_BlockedOverBooked ==
    \A r \in Slots :
        LET s == slots[r]
            e == s.resp.entries
        IN  /\ ( /\ s.pc = "done" /\ s.ran /\ s.req.op = "InsertBlocker"
                 /\ HasDoctorProfile(s) /\ ~InvalidPeriod(s.req) )
               => s.resp.status = 201
            /\ Listed(r, "GetAppointments") =>
                   \A h \in WorkHours :
                       ( /\ BlockedAt(s.doctor, HourOf(s.req.date, h))
                         /\ StoredAt(s.doctor, HourOf(s.req.date, h)) >= 1 )
                       => \E i \in DOMAIN e :
                              e[i].hour = h /\ ~e[i].available /\ e[i].patient = NoPatient

\* Storing a blocker leaves the appointments as they are.
C26_BlockerKeepsAppointments == blockers' /= blockers => appointments' = appointments

\* C26: InsertBlocker never consults the stored appointments: a valid
\* request of a doctor succeeds also when its period covers booked hours,
\* the appointments stay stored unchanged, and GetAppointments then shows
\* each such hour with available = FALSE and no patient.
C26_BlockerIgnoresAppointments ==
    []C26_BlockedOverBooked /\ [][C26_BlockerKeepsAppointments]_vars

C26_Witness ==
    \E r \in Slots :
        /\ Listed(r, "GetAppointments")
        /\ BlockedAt(slots[r].doctor, HourOf(slots[r].req.date, 17))
        /\ StoredAt(slots[r].doctor, HourOf(slots[r].req.date, 17)) = 1
        /\ \E b \in BagToSet(blockers) : \E a \in BagToSet(appointments) :
               b.doctor_id = a.doctor_id /\ b.start_date <= a.date /\ a.date <= b.end_date
        /\ \E i \in DOMAIN slots[r].resp.entries :
               /\ slots[r].resp.entries[i].hour = 17
               /\ ~slots[r].resp.entries[i].available
               /\ slots[r].resp.entries[i].patient = NoPatient

\* ---------------------------------------------------------- handler claims
\* C27: a calendar handler that cannot parse the date, the doctorUUID or
\* the body writes that error and returns: it calls neither the service nor
\* the repository, and the response holds one status and no second body.
C27_ParseFailureReturns ==
    wire /= NoWire =>
        /\ wire.calls = << >>
        /\ Len(wire.statuses) = 1
        /\ Len(wire.bodies) <= 1

\* ------------------------------------------------------------ token claims
\* The body passes Tokens.Validate.
ValidRefreshBody(b) ==
    /\ ~b.malformed
    /\ b.access_token /= EmptyString
    /\ b.refresh_token /= EmptyString
    /\ b.grant_type = "refresh_token"

\* C28: RefreshTokens verifies no signature and reads the access token only
\* for emptiness: with a valid body and no repository failure, a
\* refresh_token that parses, expires in the future and names a stored
\* user's UUID yields a new pair for that user, signed with the server's
\* key, whatever key signed the refresh token and whatever the access token.
C28_RefreshTokensTrustsAnySigner ==
    LET b == auth.req.body
        token == b.refresh_token
    IN  ( /\ auth.req.op = "RefreshToken"
          /\ auth.fault = "none"
          /\ ValidRefreshBody(b)
          /\ token.form = "jws"
          /\ auth.at < token.claims.exp
          /\ StoredUUID(token.claims.sub) ) =>
            /\ auth.resp.kind = "ok"
            /\ auth.resp.tokens =
                   PairOf(CHOOSE u \in DOMAIN users : UserUUID[u] = token.claims.sub,
                          auth.doneAt)
            /\ ParseToken(auth.resp.tokens.access_token, ServerKey).ok
            /\ ParseToken(auth.resp.tokens.refresh_token, ServerKey).ok

\* A refresh token signed with another key, beside an access token that is
\* of no use, was exchanged for a pair of the server's.
C28_Witness ==
    /\ auth.req.op = "RefreshToken"
    /\ auth.fault = "none"
    /\ auth.req.body.refresh_token = AcceptableRefreshToken
    /\ auth.req.body.access_token = UselessAccessToken
    /\ auth.resp.kind = "ok"
    /\ ParseToken(auth.resp.tokens.access_token, ServerKey).ok

\* The token string with the other typ claim and nothing else changed.
FlipTyp(token) ==
    IF token.form /= "jws" THEN token
    ELSE [token EXCEPT !.claims.typ =
              IF @ = AccessTokenType THEN RefreshTokenType ELSE AccessTokenType]

\* C29: ValidateToken and RefreshTokens give a token and the token that
\* differs from it only in typ the same outcome.  A refresh token the server
\* handed out is accepted as bearer credential until its own expiration,
\* 24 hours after it was issued, and an unexpired access token the server
\* handed out is accepted as the refresh_token of RefreshTokens.
C29_TypIsIgnored ==
    LET h == auth.req.header
        b == auth.req.body
        flipped == [b EXCEPT !.refresh_token = FlipTyp(@)]
    IN  /\ Validated =>
               /\ ValidateToken([h EXCEPT !.token = FlipTyp(@)], auth.at, auth.fault)
                      = ValidateToken(h, auth.at, auth.fault)
               /\ \A p \in issued :
                      ( /\ h = Header("Bearer ", p.tokens.refresh_token)
                        /\ auth.at < p.at + RefreshTokenExpiration
                        /\ auth.fault = "none" ) =>
                          /\ auth.resp.kind = "ok"
                          /\ auth.resp.status = StatusOK
                          /\ auth.resp.user = p.user
        /\ (auth.req.op = "RefreshToken" /\ ~b.malformed) =>
               /\ auth.resp =
                      WriteAuthResult(RefreshTokens(flipped, auth.at, auth.doneAt, auth.fault))
               /\ \A p \in issued :
                      ( /\ ValidRefreshBody(b)
                        /\ b.refresh_token = p.tokens.access_token
                        /\ auth.at < p.at + AccessTokenExpiration
                        /\ auth.fault = "none" ) =>
                          /\ auth.resp.kind = "ok"
                          /\ auth.resp.tokens = PairOf(p.user, auth.doneAt)

\* A refresh token was accepted as bearer credential after the access token
\* of its pair had expired.
C29_Witness ==
    \E p \in issued :
        /\ Validated
        /\ auth.req.header = Header("Bearer ", p.tokens.refresh_token)
        /\ p.tokens.refresh_token.claims.typ = RefreshTokenType
        /\ ~(auth.at < p.tokens.access_token.claims.exp)
        /\ auth.resp.kind = "ok"
        /\ auth.resp.user = p.user

\* An access token was exchanged for a new pair.
C29_WitnessRefresh ==
    \E p \in issued :
        /\ auth.req.op = "RefreshToken"
        /\ auth.req.body.refresh_token = p.tokens.access_token
        /\ p.tokens.access_token.claims.typ = AccessTokenType
        /\ auth.resp.kind = "ok"
        /\ auth.resp.tokens = PairOf(p.user, auth.doneAt)

\* ---------------------------------------------------------- listing claims
\* C30: in a schedule of GetAppointments an Entry carries a patient only if
\* it is not available, no blocker of the doctor covers its hour and an
\* appointment of the doctor with that patient is stored at that hour; an
\* available Entry and an Entry of a blocked hour carry no patient.
C30_PatientOnlyOnBookedHours ==
    \A r \in Slots :
        LET s == slots[r]
            e == s.resp.entries
        IN  Listed(r, "GetAppointments") =>
                \A i \in DOMAIN e :
                    LET t == HourOf(s.req.date, e[i].hour)
                    IN  /\ e[i].patient /= NoPatient =>
                               /\ ~e[i].available
                               /\ ~BlockedAt(s.doctor, t)
                               /\ StoredAt(s.doctor, t) >= 1
                               /\ \E a \in BagToSet(appointments) :
                                      /\ a.doctor_id = s.doctor
                                      /\ a.date = t
                                      /\ a.patient_id = e[i].patient
                        /\ e[i].available => e[i].patient = NoPatient
                        /\ BlockedAt(s.doctor, t) => e[i].patient = NoPatient

\* One schedule with a booked hour that shows its patient, a booked hour
\* under a blocker that shows none, and an available hour.
C30_Witness ==
    \E r \in Slots :
        LET s == slots[r]
            e == s.resp.entries
        IN  /\ Listed(r, "GetAppointments")
            /\ \E i \in DOMAIN e :
                   /\ e[i].patient /= NoPatient
                   /\ ~e[i].available
                   /\ StoredAt(s.doctor, HourOf(s.req.date, e[i].hour)) >= 1
            /\ \E i \in DOMAIN e :
                   /\ BlockedAt(s.doctor, HourOf(s.req.date, e[i].hour))
                   /\ StoredAt(s.doctor, HourOf(s.req.date, e[i].hour)) >= 1
                   /\ e[i].patient = NoPatient
            /\ \E i \in DOMAIN e : e[i].available /\ e[i].patient = NoPatient

====
